---- MODULE Spec2Model ----
(***************************************************************************)
(* A model of the fda-sbom-generator pipeline: license normalization, the  *)
(* scanner registry, the project scan with its deduplication, and the      *)
(* merge of several SBOMs.                                                 *)
(*                                                                         *)
(* Python strings are TLA+ strings; TLC evaluates Len, \o, SubSeq and Tail *)
(* on them, which is all the string functions below need.                  *)
(***************************************************************************)
EXTENDS Integers, Sequences, FiniteSets, TLC

VARIABLES
    license_text,       \* the raw license string handed to normalization
    scanner_license,    \* <<>> or <<License>>: result of BaseScanner._normalize_license
    generator_license,  \* <<>> or <<License>>: result of SBOMGenerator._normalize_license
    scanners,           \* ScannerRegistry.scanners: the ordered list of scanner classes
    op,                 \* the registry/generator operation that ran last
    registered,         \* the class handed to register_scanner in that call, or None
    project,            \* the set of relative file paths under the project root of that call
    applicable,         \* the list returned by get_applicable_scanners in that call
    outcomes,           \* per applicable scanner, what its scan() did in _scan_project
    scan_result,        \* what _scan_project did: its status, the list it returned, the scanners it ran
    sboms,              \* the list of SBOMs handed to merge_sboms
    merge_result,       \* <<>> before the call, then <<outcome of merge_sboms>>
    solution,           \* the solution directory handed to _detect_projects
    detected,           \* <<>> before the call, then <<outcome of _detect_projects>>
    project_sboms,      \* the items of the dict handed to create_solution_sbom, in order
    solution_name,      \* its solution_name argument
    manufacturer,       \* its manufacturer argument
    solution_sbom,      \* <<>> before the call, then <<outcome of create_solution_sbom>>
    exported_sbom,      \* the SBOM handed to export_sbom
    format_name,        \* its format_name argument
    output_file,        \* what the file at output_path holds
    export_result,      \* <<>> before the call, then <<outcome of export_sbom>>
    reloaded,           \* <<>>, then <<the SBOM rebuilt from the exported native JSON>>
    call,               \* the call of generate_sbom or scan_solution: arguments and environment
    call_trace,         \* the calls and callbacks that call made, in order
    call_result,        \* <<>> before the call, then <<how it ended>>
    bom,                \* <<>> or <<the SBOM at hand>>: returned by generate_sbom or built by hand
    scanned_sboms,      \* the map scan_solution returned
    report,             \* <<>>, then <<the SBOMReport of validate_sbom(bom)>>
    checklist,          \* <<>>, then <<the dict of generate_compliance_checklist(bom)>>
    heap,               \* the Component objects: the fields of each, by reference
    source_boms,        \* the SBOMs handed to merge_sboms, their components as references
    merged_bom,         \* <<>>, then <<the SBOM merge_sboms returned>>, components as references
    pypi                \* the license text PyPI holds for each package name, or None

vars == <<license_text, scanner_license, generator_license, scanners, op,
          registered, project, applicable, outcomes, scan_result, sboms, merge_result,
          solution, detected, project_sboms, solution_name, manufacturer,
          solution_sbom, exported_sbom, format_name, output_file, export_result,
          reloaded, call, call_trace, call_result, bom, scanned_sboms, report,
          checklist, heap, source_boms, merged_bom, pypi>>

licenseVars == <<license_text, scanner_license, generator_license>>
registryVars == <<scanners, op, registered, project, applicable, outcomes, scan_result>>
mergeVars == <<sboms, merge_result>>
detectVars == <<solution, detected>>
solutionVars == <<project_sboms, solution_name, manufacturer, solution_sbom>>
exportVars == <<exported_sbom, format_name, output_file, export_result, reloaded>>
pipelineVars == <<call, call_trace, call_result, bom, scanned_sboms, report, checklist>>
objectVars == <<heap, source_boms, merged_bom, pypi>>

(***************************************************************************)
(* Python values                                                           *)
(***************************************************************************)

\* Python's None.  It is a string outside the alphabet of every modelled
\* Python string, so that it compares unequal to each of them.
None == "<None>"

\* bool(x) for an Optional[str]: None and "" are falsy.
Truthy(x) == x # None /\ x # ""

\* str(x) as an f-string placeholder renders it: None becomes "None".
Format(x) == IF x = None THEN "None" ELSE x

\* {}: a dict with no keys
EmptyDict == [k \in {} |-> None]

\* d[key] = value
DictSet(d, key, value) ==
    [k \in DOMAIN d \cup {key} |-> IF k = key THEN value ELSE d[k]]

\* s.startswith(prefix)
StartsWith(s, prefix) ==
    Len(prefix) <= Len(s) /\ SubSeq(s, 1, Len(prefix)) = prefix

\* s.endswith(suffix)
EndsWith(s, suffix) ==
    Len(suffix) <= Len(s) /\ SubSeq(s, Len(s) - Len(suffix) + 1, Len(s)) = suffix

\* pattern in s
Contains(s, pattern) ==
    \E i \in 1..(Len(s) - Len(pattern) + 1) :
        SubSeq(s, i, i + Len(pattern) - 1) = pattern

IsSpace(c) == c \in {" ", "\t", "\n", "\r"}

RECURSIVE LStrip(_)
LStrip(s) ==
    IF Len(s) > 0 /\ IsSpace(SubSeq(s, 1, 1)) THEN LStrip(Tail(s)) ELSE s

RECURSIVE RStrip(_)
RStrip(s) ==
    IF Len(s) > 0 /\ IsSpace(SubSeq(s, Len(s), Len(s)))
    THEN RStrip(SubSeq(s, 1, Len(s) - 1))
    ELSE s

\* s.strip()
Strip(s) == RStrip(LStrip(s))

LowerChar(c) ==
    CASE c = "A" -> "a" [] c = "B" -> "b" [] c = "C" -> "c" [] c = "D" -> "d"
      [] c = "E" -> "e" [] c = "F" -> "f" [] c = "G" -> "g" [] c = "H" -> "h"
      [] c = "I" -> "i" [] c = "J" -> "j" [] c = "K" -> "k" [] c = "L" -> "l"
      [] c = "M" -> "m" [] c = "N" -> "n" [] c = "O" -> "o" [] c = "P" -> "p"
      [] c = "Q" -> "q" [] c = "R" -> "r" [] c = "S" -> "s" [] c = "T" -> "t"
      [] c = "U" -> "u" [] c = "V" -> "v" [] c = "W" -> "w" [] c = "X" -> "x"
      [] c = "Y" -> "y" [] c = "Z" -> "z" [] OTHER -> c

\* s.lower()
RECURSIVE Lower(_)
Lower(s) ==
    IF Len(s) = 0 THEN "" ELSE LowerChar(SubSeq(s, 1, 1)) \o Lower(Tail(s))

(***************************************************************************)
(* License and its normalization                                           *)
(***************************************************************************)

SpdxPrefix == "SPDX-License-Identifier:"

\* The faulty variant: the prefix is added whatever the value starts with.
validate_spdx_id_always(v) ==
    IF Truthy(v)
    THEN "SPDX-License-Identifier: " \o v
    ELSE v

\* License.validate_spdx_id: the pydantic validator applied to spdx_id.
validate_spdx_id(v) ==
    IF Truthy(v) /\ ~StartsWith(v, SpdxPrefix)
    THEN "SPDX-License-Identifier: " \o v
    ELSE v

\* License(spdx_id=..., name=...); a field that is not passed is None.
License(spdx_id, name) ==
    [spdx_id |-> validate_spdx_id(spdx_id), name |-> name]

\* The mapping table of BaseScanner._normalize_license, in dict order.
scanner_spdx_mappings ==
    << <<"MIT", "MIT">>,
       <<"Apache-2.0", "Apache-2.0">>,
       <<"GPL-3.0", "GPL-3.0-only">>,
       <<"BSD-3-Clause", "BSD-3-Clause">>,
       <<"ISC", "ISC">>,
       <<"LGPL-2.1", "LGPL-2.1-only">> >>

\* The mapping table of SBOMGenerator._normalize_license, in dict order.
generator_spdx_mappings ==
    << <<"MIT", "MIT">>,
       <<"MIT License", "MIT">>,
       <<"Apache-2.0", "Apache-2.0">>,
       <<"Apache License 2.0", "Apache-2.0">>,
       <<"Apache 2.0", "Apache-2.0">>,
       <<"GPL-3.0", "GPL-3.0-only">>,
       <<"BSD-3-Clause", "BSD-3-Clause">>,
       <<"ISC", "ISC">>,
       <<"LGPL-2.1", "LGPL-2.1-only">> >>

\* license_text in spdx_mappings
DirectMatch(mappings, text) ==
    \E i \in 1..Len(mappings) : mappings[i][1] = text

\* spdx_mappings[license_text]
Lookup(mappings, text) ==
    mappings[CHOOSE i \in 1..Len(mappings) : mappings[i][1] = text][2]

\* The indices the partial-match loop would return at.
PartialMatches(mappings, text) ==
    {i \in 1..Len(mappings) : Contains(Lower(text), Lower(mappings[i][1]))}

\* The entry at which the partial-match loop returns: the first in dict order.
FirstPartial(mappings, text) ==
    CHOOSE i \in PartialMatches(mappings, text) :
        \A j \in PartialMatches(mappings, text) : i <= j

\* BaseScanner._normalize_license
BaseScanner_normalize_license(text) ==
    IF ~Truthy(text)
    THEN License(None, "Unknown")
    ELSE LET t == Strip(text) IN
         IF DirectMatch(scanner_spdx_mappings, t)
         THEN License(Lookup(scanner_spdx_mappings, t), t)
         ELSE IF PartialMatches(scanner_spdx_mappings, t) # {}
         THEN License(scanner_spdx_mappings[FirstPartial(scanner_spdx_mappings, t)][2], t)
         ELSE License(None, t)

\* SBOMGenerator._normalize_license
SBOMGenerator_normalize_license(text) ==
    IF ~Truthy(text)
    THEN License(None, "Unknown")
    ELSE LET t == Strip(text) IN
         IF DirectMatch(generator_spdx_mappings, t)
         THEN License(Lookup(generator_spdx_mappings, t), t)
         ELSE IF PartialMatches(generator_spdx_mappings, t) # {}
         THEN License(generator_spdx_mappings[FirstPartial(generator_spdx_mappings, t)][2], t)
         ELSE License(None, t)

\* The largest number of whitespace characters put on each side of a text.
MaxPad == 1

RECURSIVE Spaces(_)
Spaces(n) == IF n = 0 THEN "" ELSE " " \o Spaces(n - 1)

Pads == {Spaces(n) : n \in 0..MaxPad} \cup {"\t"}

\* The license texts before padding: table keys, free-text variants, other
\* letter case, texts that contain a key, texts that match nothing, nothing.
LicenseCores ==
    {"", "MIT", "mit", "MIT License", "Apache-2.0", "Apache License 2.0",
     "Apache 2.0", "GPL-3.0", "BSD-3-Clause", "ISC", "LGPL-2.1", "lgpl-2.1",
     "Something Custom", "Custom License", "Permit",
     "SPDX-License-Identifier: MIT"}

LicenseInputs ==
    {None} \cup {l \o c \o r : l \in Pads, c \in LicenseCores, r \in Pads}

InitLicense ==
    /\ license_text \in LicenseInputs
    /\ scanner_license = <<>>
    /\ generator_license = <<>>

IdleLicense ==
    /\ license_text = None
    /\ scanner_license = <<>>
    /\ generator_license = <<>>

\* A scanner normalizes the license text it has read.
ScannerNormalize ==
    /\ scanner_license = <<>>
    /\ scanner_license' = <<BaseScanner_normalize_license(license_text)>>
    /\ UNCHANGED <<license_text, generator_license, registryVars, mergeVars, detectVars, solutionVars, exportVars, pipelineVars, objectVars>>

\* update_component_licenses normalizes the license text it has fetched.
GeneratorNormalize ==
    /\ generator_license = <<>>
    /\ generator_license' = <<SBOMGenerator_normalize_license(license_text)>>
    /\ UNCHANGED <<license_text, scanner_license, registryVars, mergeVars, detectVars, solutionVars, exportVars, pipelineVars, objectVars>>

(***************************************************************************)
(* Scanners and the scanner registry                                       *)
(***************************************************************************)

\* The number of scanner classes defined outside the package.
MaxCustom == 2

CustomName(i) == "CustomScanner" \o ToString(i)

CustomClasses == {CustomName(i) : i \in 1..MaxCustom}

BuiltinClasses ==
    {"PythonScanner", "JavaScriptScanner", "JavaScanner", "DotNetScanner",
     "FileScanner"}

ScannerClasses == BuiltinClasses \cup CustomClasses

\* The relative paths a project directory may hold.
Files == {"package.json", "pom.xml", "app.csproj", "src/main.py"}

\* A project directory is the set of the files below it.
Projects == SUBSET Files

\* (project_path / indicator).exists()
Exists(root, indicator) == indicator \in root

\* project_path.glob("*" + suffix): the matching entries of the directory itself
Glob(root, suffix) == {p \in root : ~Contains(p, "/") /\ EndsWith(p, suffix)}

\* project_path.rglob("*" + suffix): the matching entries at any depth
RGlob(root, suffix) == {p \in root : EndsWith(p, suffix)}

\* PythonScanner.can_scan
PythonScanner_can_scan(root) ==
    \/ \E indicator \in {"requirements.txt", "setup.py", "pyproject.toml",
                         "Pipfile", "conda.yaml", "environment.yml"} :
           Exists(root, indicator)
    \/ RGlob(root, ".py") # {}

\* JavaScriptScanner.can_scan
JavaScriptScanner_can_scan(root) ==
    \E indicator \in {"package.json", "package-lock.json", "yarn.lock",
                      "pnpm-lock.yaml"} :
        Exists(root, indicator)

\* JavaScanner.can_scan
JavaScanner_can_scan(root) ==
    \E indicator \in {"pom.xml", "build.gradle", "build.gradle.kts",
                      "gradle.properties"} :
        Exists(root, indicator)

\* DotNetScanner.can_scan
DotNetScanner_can_scan(root) ==
    \/ \E suffix \in {".csproj", ".vbproj", ".fsproj", ".sln"} :
           Glob(root, suffix) # {}
    \/ Exists(root, "packages.config")

\* FileScanner.can_scan
FileScanner_can_scan(root) == TRUE

\* can_scan of a scanner class defined outside the package, as the test
\* suite defines them: it accepts every project.
CustomScanner_can_scan(root) == TRUE

\* scanner_class(project_path).can_scan()
can_scan(cls, root) ==
    CASE cls = "PythonScanner" -> PythonScanner_can_scan(root)
      [] cls = "JavaScriptScanner" -> JavaScriptScanner_can_scan(root)
      [] cls = "JavaScanner" -> JavaScanner_can_scan(root)
      [] cls = "DotNetScanner" -> DotNetScanner_can_scan(root)
      [] cls = "FileScanner" -> FileScanner_can_scan(root)
      [] OTHER -> CustomScanner_can_scan(root)

\* ScannerRegistry.__init__
ScannerRegistry_init ==
    <<"PythonScanner", "JavaScriptScanner", "JavaScanner", "DotNetScanner",
      "FileScanner">>

\* A faulty variant of the function below: it does not ask can_scan.
get_applicable_scanners_unfiltered(registry, root) == registry

\* ScannerRegistry.get_applicable_scanners: the loop over self.scanners
get_applicable_scanners(registry, root) ==
    LET RECURSIVE Loop(_, _)
        Loop(rest, acc) ==
            IF rest = <<>> THEN acc
            ELSE Loop(Tail(rest),
                      IF can_scan(Head(rest), root)
                      THEN Append(acc, Head(rest)) ELSE acc)
    IN Loop(registry, <<>>)

\* list.insert(-1, x): x goes before the last element (first if the list is empty)
InsertBeforeLast(list, x) ==
    IF list = <<>> THEN <<x>>
    ELSE SubSeq(list, 1, Len(list) - 1) \o <<x, list[Len(list)]>>

\* A faulty variant of the function below: it appends the class.
register_scanner_append(registry, scanner_class) ==
    IF \A i \in 1..Len(registry) : registry[i] # scanner_class
    THEN Append(registry, scanner_class)
    ELSE registry

\* ScannerRegistry.register_scanner
register_scanner(registry, scanner_class) ==
    IF \A i \in 1..Len(registry) : registry[i] # scanner_class
    THEN InsertBeforeLast(registry, scanner_class)
    ELSE registry

(***************************************************************************)
(* Components, the project scan and the merge                              *)
(***************************************************************************)

\* Component(name=..., version=..., package_manager=..., description=...)
Component(name, version, package_manager, description) ==
    [name |-> name, version |-> version, package_manager |-> package_manager,
     description |-> description, package_url |-> None, licenses |-> <<>>,
     vulnerabilities |-> <<>>]

\* The components scanners report here.  Some agree on the identity triple
\* and differ elsewhere; names and versions may hold a colon (Maven names are
\* group:artifact, npm versions may be file:... or npm:...), and a version
\* may be absent.
Components ==
    {Component("a", None, "npm", "first"),
     Component("a", None, "npm", "second"),
     Component("a:b", "1", "npm", "first"),
     Component("a", "b:1", "npm", "first")}

\* The identity of a component for deduplication.
Triple(c) == <<c.name, c.version, c.package_manager>>

\* f"{component.name}:{component.version}:{component.package_manager}"
component_key(c) ==
    c.name \o ":" \o Format(c.version) \o ":" \o Format(c.package_manager)

\* The inner loop: each component whose key is new is recorded and appended.
RECURSIVE AddComponents(_, _)
AddComponents(acc, components) ==
    IF components = <<>> THEN acc
    ELSE LET component == Head(components)
             key == component_key(component)
         IN AddComponents(
                IF key \notin acc.seen
                THEN [acc EXCEPT !.seen = acc.seen \cup {key},
                                 !.all = Append(acc.all, component)]
                ELSE acc,
                Tail(components))

\* What a scanner's scan() does: it raises, or it returns a list.
Raised == [raised |-> TRUE, components |-> <<>>]
Returned(components) == [raised |-> FALSE, components |-> components]

\* A faulty variant of the loop below: a failing scan() ends the call.
RECURSIVE RunScanners_abort(_, _, _)
RunScanners_abort(acc, scs, outs) ==
    IF scs = <<>> \/ acc.status = "raised" THEN acc
    ELSE LET ran == [acc EXCEPT !.ran = Append(acc.ran, Head(scs))] IN
         RunScanners_abort(
             IF Head(outs).raised
             THEN [ran EXCEPT !.status = "raised"]
             ELSE AddComponents(ran, Head(outs).components),
             Tail(scs), Tail(outs))

\* The loop over the scanners: scan() is called on each; what it returns is
\* deduplicated into the result, and what it raises is caught and reported.
RECURSIVE RunScanners(_, _, _)
RunScanners(acc, scs, outs) ==
    IF scs = <<>> THEN acc
    ELSE LET ran == [acc EXCEPT !.ran = Append(acc.ran, Head(scs))] IN
         RunScanners(
             IF Head(outs).raised
             THEN ran
             ELSE AddComponents(ran, Head(outs).components),
             Tail(scs), Tail(outs))

\* SBOMGenerator._scan_project, given what each applicable scanner does
scan_project(scs, outs) ==
    LET acc == RunScanners([status |-> "returned", all |-> <<>>, seen |-> {},
                            ran |-> <<>>], scs, outs)
    IN [status |-> acc.status,
        components |-> IF acc.status = "returned" THEN acc.all ELSE <<>>,
        ran |-> acc.ran]

\* The largest number of components the scanners of one scan return together.
MaxComponents == 2

\* The lists over S of length at most n.
RECURSIVE SeqsUpTo(_, _)
SeqsUpTo(S, n) ==
    IF n = 0 THEN {<<>>}
    ELSE LET shorter == SeqsUpTo(S, n - 1)
         IN shorter \cup {Append(q, x) : q \in {r \in shorter : Len(r) = n - 1}, x \in S}

\* The elements of flat that owner gives to i, in order.
RECURSIVE Share(_, _, _)
Share(flat, owner, i) ==
    IF flat = <<>> THEN <<>>
    ELSE LET rest == Share(Tail(flat), Tail(owner), i)
         IN IF Head(owner) = i THEN <<Head(flat)>> \o rest ELSE rest

\* The ways to cut a list of length len into n consecutive shares: the share
\* of each position, never decreasing.
Cuts(len, n) ==
    {owner \in [1..len -> 1..n] :
        \A j \in 1..(len - 1) : owner[j] <= owner[j + 1]}

NoScan == [status |-> "none", components |-> <<>>, ran |-> <<>>]

InitRegistry ==
    /\ scanners = ScannerRegistry_init
    /\ op = "init"
    /\ registered = None
    /\ project = {}
    /\ applicable = <<>>
    /\ outcomes = <<>>
    /\ scan_result = NoScan

\* registry.register_scanner(scanner_class)
RegisterScanner ==
    \E scanner_class \in ScannerClasses :
        /\ scanners' = register_scanner(scanners, scanner_class)
        /\ op' = "register_scanner"
        /\ registered' = scanner_class
        /\ project' = {}
        /\ applicable' = <<>>
        /\ outcomes' = <<>>
        /\ scan_result' = NoScan
        /\ UNCHANGED <<licenseVars, mergeVars, detectVars, solutionVars, exportVars, pipelineVars, objectVars>>

\* registry.get_applicable_scanners(project_path)
GetApplicableScanners ==
    \E root \in Projects :
        /\ op' = "get_applicable_scanners"
        /\ registered' = None
        /\ project' = root
        /\ applicable' = get_applicable_scanners(scanners, root)
        /\ outcomes' = <<>>
        /\ scan_result' = NoScan
        /\ UNCHANGED <<scanners, licenseVars, mergeVars, detectVars, solutionVars, exportVars, pipelineVars, objectVars>>

\* A scan is about to start: the fresh registry, the project, and what the scan()
\* of each applicable scanner will do there.  A list of at most MaxComponents
\* components is cut into consecutive shares, one for each scanner, and the
\* scanners without a share may raise.
InitScan ==
    /\ scanners = ScannerRegistry_init
    /\ op = "init"
    /\ registered = None
    /\ project \in Projects
    /\ applicable = <<>>
    /\ LET n == Len(get_applicable_scanners(scanners, project)) IN
       \E flat \in SeqsUpTo(Components, MaxComponents) :
       \E owner \in Cuts(Len(flat), n) :
       \E failed \in SUBSET ((1..n) \ {owner[j] : j \in 1..Len(flat)}) :
           outcomes = [i \in 1..n |->
                          IF i \in failed THEN Raised
                          ELSE Returned(Share(flat, owner, i))]
    /\ scan_result = NoScan

\* generator._scan_project(project_path)
ScanProject ==
    /\ op = "init"
    /\ LET scs == get_applicable_scanners(scanners, project) IN
        /\ op' = "_scan_project"
        /\ applicable' = scs
        /\ scan_result' = scan_project(scs, outcomes)
    /\ UNCHANGED <<scanners, registered, project, outcomes, licenseVars, mergeVars, detectVars, solutionVars, exportVars, pipelineVars, objectVars>>

(***************************************************************************)
(* merge_sboms                                                             *)
(***************************************************************************)

\* SBOM(document_name=..., target_system=..., creators=...): the fields that
\* are not passed take their defaults.
SBOM(document_name, target_system, creators) ==
    [document_id |-> "00000000-0000-4000-8000-000000000000",
     document_name |-> document_name,
     document_namespace |->
         "https://sbom.example.com/00000000-0000-4000-8000-000000000000",
     created |-> "2024-01-15T10:30:00",
     target_system |-> target_system,
     target_version |-> None, creators |-> creators, manufacturer |-> None,
     fda_submission_id |-> None, components |-> <<>>, relationships |-> EmptyDict]

\* A faulty variant of the step below: a later SBOM overwrites the metadata.
CopyMetadata_lastwins(merged, sbom) ==
    [merged EXCEPT
        !.manufacturer =
            IF Truthy(sbom.manufacturer) THEN sbom.manufacturer ELSE @,
        !.fda_submission_id =
            IF Truthy(sbom.fda_submission_id) THEN sbom.fda_submission_id ELSE @]

\* "Copy metadata from first SBOM if not set"
CopyMetadata(merged, sbom) ==
    [merged EXCEPT
        !.manufacturer =
            IF ~Truthy(@) /\ Truthy(sbom.manufacturer)
            THEN sbom.manufacturer ELSE @,
        !.fda_submission_id =
            IF ~Truthy(@) /\ Truthy(sbom.fda_submission_id)
            THEN sbom.fda_submission_id ELSE @]

\* The loop over the SBOMs: metadata first, then the components whose key is
\* new are added with add_component.
RECURSIVE MergeLoop(_, _)
MergeLoop(acc, rest) ==
    IF rest = <<>> THEN acc
    ELSE LET sbom == Head(rest)
             merged == CopyMetadata(acc.merged, sbom)
             added == AddComponents([seen |-> acc.seen, all |-> merged.components],
                                    sbom.components)
         IN MergeLoop([merged |-> [merged EXCEPT !.components = added.all],
                       seen |-> added.seen],
                      Tail(rest))

\* A faulty variant of the function below: no SBOMs give an empty SBOM.
merge_sboms_noguard(list, merged_name) ==
    [status |-> "returned",
     sbom |-> MergeLoop([merged |-> SBOM(merged_name, merged_name,
                                         <<"fda-sbom-generator-0.1.0-merged">>),
                         seen |-> {}], list).merged]

\* SBOMGenerator.merge_sboms
merge_sboms(list, merged_name) ==
    IF list = <<>>
    THEN [status |-> "ValueError: No SBOMs provided for merging"]
    ELSE [status |-> "returned",
          sbom |-> MergeLoop([merged |-> SBOM(merged_name, merged_name,
                                              <<"fda-sbom-generator-0.1.0-merged">>),
                              seen |-> {}], list).merged]

\* The largest number of SBOMs merged at once.
MaxSboms == 2

\* The largest number of components the merged SBOMs hold together.
MaxMergeComponents == 2

Manufacturers == {None, "", "Acme", "Beta"}

SubmissionIds == {None, "K240001"}

IdleMerge ==
    /\ sboms = <<>>
    /\ merge_result = <<>>

\* The SBOMs to merge: a list of at most MaxMergeComponents components cut
\* into consecutive shares, one for each of at most MaxSboms SBOMs, each SBOM
\* with its own metadata.
InitMerge ==
    /\ \E n \in 0..MaxSboms :
       \E flat \in SeqsUpTo(Components, MaxMergeComponents) :
       \E owner \in Cuts(Len(flat), n) :
       \E meta \in [1..n -> Manufacturers \X SubmissionIds] :
           sboms = [i \in 1..n |->
                       [SBOM("Project", None, <<>>) EXCEPT
                           !.manufacturer = meta[i][1],
                           !.fda_submission_id = meta[i][2],
                           !.components = Share(flat, owner, i)]]
    /\ merge_result = <<>>

\* generator.merge_sboms(sboms, "Merged")
MergeSboms ==
    /\ merge_result = <<>>
    /\ merge_result' = <<merge_sboms(sboms, "Merged")>>
    /\ UNCHANGED <<sboms, licenseVars, registryVars, detectVars, solutionVars, exportVars, pipelineVars, objectVars>>

(***************************************************************************)
(* Solution discovery                                                      *)
(***************************************************************************)

\* s.split(sep) for a separator of one character
RECURSIVE Split(_, _)
Split(s, sep) ==
    IF ~Contains(s, sep) THEN <<s>>
    ELSE LET i == CHOOSE i \in 1..Len(s) :
                      /\ SubSeq(s, i, i) = sep
                      /\ \A j \in 1..(i - 1) : SubSeq(s, j, j) # sep
         IN  <<SubSeq(s, 1, i - 1)>> \o Split(SubSeq(s, i + 1, Len(s)), sep)

\* sep.join(parts)
RECURSIVE JoinWith(_, _)
JoinWith(sep, parts) ==
    IF parts = <<>> THEN ""
    ELSE IF Len(parts) = 1 THEN parts[1]
    ELSE parts[1] \o sep \o JoinWith(sep, Tail(parts))

\* s.replace(old, new) for an old of one character
Replace(s, old, new) == JoinWith(new, Split(s, old))

\* A path is the tuple of its components relative to solution_path, which
\* is therefore the empty tuple.
SolutionPath == <<>>

\* solution_path.name: the name of the solution directory itself.
SolutionDirName == "solution"

\* Path(text) for a relative path written with "/"
PurePath(text) == Split(text, "/")

\* str(path)
PathString(path) == JoinWith("/", path)

\* path.parent
Parent(path) ==
    IF path = <<>> THEN <<>> ELSE SubSeq(path, 1, Len(path) - 1)

\* path.name
PathName(path) ==
    IF path = <<>> THEN SolutionDirName ELSE path[Len(path)]

\* base / relative
JoinPath(base, relative) == base \o relative

\* The directories of a tree given by the set of its files; the solution
\* directory itself always exists.
Directories(files) ==
    {<<>>} \cup {SubSeq(f, 1, k) : <<f, k>> \in
                    {<<f, k>> \in files \X (0..4) : k < Len(f)}}

\* path.is_dir()
is_dir(s, path) == path \in s.dirs

\* path.exists()
PathExists(s, path) == path \in s.files \/ path \in s.dirs

\* fnmatch of one path component against "*", "*suffix" or a literal name
Matches(name, pattern) ==
    IF pattern = "*" THEN TRUE
    ELSE IF StartsWith(pattern, "*") THEN EndsWith(name, Tail(pattern))
    ELSE name = pattern

\* base.glob(pattern): the entries below base whose components match the
\* components of the pattern one by one ("*" also matches dot-names)
PathGlob(s, base, pattern) ==
    LET want == PurePath(pattern) IN
    {p \in (s.files \cup s.dirs) :
        /\ Len(p) = Len(base) + Len(want)
        /\ SubSeq(p, 1, Len(base)) = base
        /\ \A k \in 1..Len(want) : Matches(p[Len(base) + k], want[k])}

\* SolutionScanner._is_dotnet_solution
is_dotnet_solution(s) == PathGlob(s, SolutionPath, "*.sln") # {}

\* SolutionScanner._is_npm_workspace
is_npm_workspace(s) ==
    /\ PathExists(s, <<"package.json">>)
    /\ s.text[<<"package.json">>].valid
    /\ s.text[<<"package.json">>].has_workspaces

\* SolutionScanner._is_maven_multimodule
is_maven_multimodule(s) ==
    /\ PathExists(s, <<"pom.xml">>)
    /\ s.text[<<"pom.xml">>].has_modules

\* The faulty variant: the ending of the referenced path is not looked at.
RECURSIVE AddSolutionProjects_anyending(_, _, _, _)
AddSolutionProjects_anyending(s, sln_file, projects, matches) ==
    IF matches = <<>> THEN projects
    ELSE LET project_name == Head(matches).name
             project_path == Head(matches).path
             full_path == Parent(JoinPath(Parent(sln_file), PurePath(project_path)))
             next == IF PathExists(s, full_path)
                     THEN DictSet(projects, project_name, full_path)
                     ELSE projects
         IN  AddSolutionProjects_anyending(s, sln_file, next, Tail(matches))

\* The loop over the matches of the Project(...) pattern in one .sln file.
RECURSIVE AddSolutionProjects(_, _, _, _)
AddSolutionProjects(s, sln_file, projects, matches) ==
    IF matches = <<>> THEN projects
    ELSE LET project_name == Head(matches).name
             project_path == Head(matches).path
             full_path == Parent(JoinPath(Parent(sln_file), PurePath(project_path)))
             next == IF /\ \/ EndsWith(project_path, ".csproj")
                           \/ EndsWith(project_path, ".vbproj")
                        /\ PathExists(s, full_path)
                     THEN DictSet(projects, project_name, full_path)
                     ELSE projects
         IN  AddSolutionProjects(s, sln_file, next, Tail(matches))

\* SolutionScanner._scan_dotnet_solution: the .sln files are read in the
\* order the directory listing yields; one that cannot be read is skipped
\* with a warning.
scan_dotnet_solution(s) ==
    LET RECURSIVE Loop(_, _)
        Loop(projects, sln_files) ==
            IF sln_files = {} THEN projects
            ELSE LET sln_file == CHOOSE f \in sln_files : TRUE
                     content == s.text[sln_file]
                     next == IF content.readable
                             THEN AddSolutionProjects(s, sln_file, projects,
                                                      content.projects)
                             ELSE projects
                 IN  Loop(next, sln_files \ {sln_file})
    IN  Loop(EmptyDict, PathGlob(s, SolutionPath, "*.sln"))

\* The loop over the workspace patterns of package.json.
RECURSIVE AddWorkspaces(_, _, _)
AddWorkspaces(s, projects, workspaces) ==
    IF workspaces = <<>> THEN projects
    ELSE LET workspace_pattern == Head(workspaces)
             found == IF Contains(workspace_pattern, "*")
                      THEN {p \in PathGlob(s, SolutionPath, workspace_pattern) :
                               /\ is_dir(s, p)
                               /\ PathExists(s, JoinPath(p, <<"package.json">>))}
                      ELSE {p \in {JoinPath(SolutionPath, PurePath(workspace_pattern))} :
                               /\ PathExists(s, p)
                               /\ PathExists(s, JoinPath(p, <<"package.json">>))}
             RECURSIVE Loop(_, _)
             Loop(acc, paths) ==
                 IF paths = {} THEN acc
                 ELSE LET workspace_path == CHOOSE p \in paths : TRUE
                      IN  Loop(DictSet(acc, PathName(workspace_path), workspace_path),
                               paths \ {workspace_path})
         IN  AddWorkspaces(s, Loop(projects, found), Tail(workspaces))

\* SolutionScanner._scan_npm_workspace: a package.json that json.load rejects
\* leaves the map empty.
scan_npm_workspace(s) ==
    IF ~PathExists(s, <<"package.json">>) THEN EmptyDict
    ELSE LET data == s.text[<<"package.json">>] IN
         IF ~data.valid THEN EmptyDict
         ELSE AddWorkspaces(s, EmptyDict, data.workspaces)

\* The loop over the <module> elements the lookup returned.
RECURSIVE AddModules(_, _, _)
AddModules(s, projects, modules) ==
    IF modules = <<>> THEN projects
    ELSE LET module_name == Head(modules)
             module_path == JoinPath(SolutionPath, PurePath(module_name))
             next == IF /\ PathExists(s, module_path)
                        /\ PathExists(s, JoinPath(module_path, <<"pom.xml">>))
                     THEN DictSet(projects, module_name, module_path)
                     ELSE projects
         IN  AddModules(s, next, Tail(modules))

\* root.xpath('//maven:module', namespaces=ns): the lookup is qualified with
\* the Maven namespace, so it finds the <module> elements only of a document
\* that declares that namespace as its default.
xpath_maven_module(pom) == IF pom.xmlns THEN pom.modules ELSE <<>>

\* SolutionScanner._scan_maven_multimodule
scan_maven_multimodule(s) ==
    IF ~PathExists(s, <<"pom.xml">>) THEN EmptyDict
    ELSE AddModules(s, EmptyDict, xpath_maven_module(s.text[<<"pom.xml">>]))

\* The project indicators of generic detection.
indicators ==
    <<"package.json", "requirements.txt", "pyproject.toml", "pom.xml",
      "build.gradle", "*.csproj", "Cargo.toml", "go.mod">>

\* any(list(dir_path.glob(indicator)) for indicator in indicators)
HasIndicator(s, dir_path) ==
    \E i \in 1..Len(indicators) : PathGlob(s, dir_path, indicators[i]) # {}

\* str(rel_path).replace('/', '-')
get_relative_name(project_path) == Replace(PathString(project_path), "/", "-")

\* The directories generic detection does not look into.
SkippedNames == {"node_modules", "target", "build", "__pycache__"}

\* SolutionScanner._scan_generic_projects: levels 1 to 3 in turn, each in
\* the order the directory listing yields, then the root as the fallback.
scan_generic_projects(s) ==
    LET RECURSIVE Level(_, _)
        Level(projects, dir_paths) ==
            IF dir_paths = {} THEN projects
            ELSE LET dir_path == CHOOSE p \in dir_paths : TRUE
                     next == IF /\ is_dir(s, dir_path)
                                /\ ~StartsWith(PathName(dir_path), ".")
                                /\ PathName(dir_path) \notin SkippedNames
                                /\ HasIndicator(s, dir_path)
                             THEN DictSet(projects, get_relative_name(dir_path), dir_path)
                             ELSE projects
                 IN  Level(next, dir_paths \ {dir_path})
        RECURSIVE Levels(_, _)
        Levels(projects, level) ==
            IF level > 3 THEN projects
            ELSE Levels(Level(projects,
                              PathGlob(s, SolutionPath,
                                       JoinWith("/", [i \in 1..level |-> "*"]))),
                        level + 1)
        sub_projects == Levels(EmptyDict, 1)
    IN  IF DOMAIN sub_projects = {} /\ HasIndicator(s, SolutionPath)
        THEN DictSet(EmptyDict, SolutionDirName, SolutionPath)
        ELSE sub_projects

\* The faulty variant: the rules are tried in turn until one finds a project.
detect_projects_fallthrough(s) ==
    LET dotnet == [called |-> "_scan_dotnet_solution", projects |-> scan_dotnet_solution(s)]
        npm == [called |-> "_scan_npm_workspace", projects |-> scan_npm_workspace(s)]
        maven == [called |-> "_scan_maven_multimodule",
                  projects |-> scan_maven_multimodule(s)]
        generic == [called |-> "_scan_generic_projects",
                    projects |-> scan_generic_projects(s)]
    IN  IF is_dotnet_solution(s) /\ DOMAIN dotnet.projects # {} THEN dotnet
        ELSE IF is_npm_workspace(s) /\ DOMAIN npm.projects # {} THEN npm
        ELSE IF is_maven_multimodule(s) /\ DOMAIN maven.projects # {} THEN maven
        ELSE generic

\* SolutionScanner._detect_projects: the project map, and the one scan
\* method the if/elif chain called to get it.
detect_projects(s) ==
    IF is_dotnet_solution(s)
    THEN [called |-> "_scan_dotnet_solution", projects |-> scan_dotnet_solution(s)]
    ELSE IF is_npm_workspace(s)
    THEN [called |-> "_scan_npm_workspace", projects |-> scan_npm_workspace(s)]
    ELSE IF is_maven_multimodule(s)
    THEN [called |-> "_scan_maven_multimodule", projects |-> scan_maven_multimodule(s)]
    ELSE [called |-> "_scan_generic_projects", projects |-> scan_generic_projects(s)]

\* The most Project(...) lines an .sln file holds here.
MaxProjectLines == 2

\* The most <module> entries a pom.xml holds here.
MaxModules == 2

\* The files below the sub-directories of a solution directory.
SubFiles ==
    {<<"App", "App.csproj">>, <<"core", "pom.xml">>,
     <<"packages", "web", "package.json">>,
     <<"node_modules", "pkg", "package.json">>, <<"build", "package.json">>,
     <<"a", "b", "c", "go.mod">>, <<"a", "b", "c", "d", "go.mod">>}

\* A project directory whose name holds the "-" that joins the components of
\* a relative name.
DashedFiles == {<<"a-b", "c", "go.mod">>}

\* The Project(...) lines of an .sln file, as the pattern captures them: a
\* C# project, a VB project, a solution folder, and a second project that
\* reuses a name.
ProjectLines ==
    {[name |-> "App", path |-> "App/App.csproj"],
     [name |-> "Core", path |-> "core/Core.vbproj"],
     [name |-> "Docs", path |-> "Docs"],
     [name |-> "App", path |-> "core/App.csproj"]}

\* The <module> entries of a pom.xml.
ModuleNames == {"core", "build"}

\* What the root may hold as App.sln, package.json and pom.xml: each is a
\* sequence that is empty when the file is absent.
SlnTexts ==
    {<<>>, <<[readable |-> FALSE, projects |-> <<>>]>>}
    \cup {<<[readable |-> TRUE, projects |-> lines]>> :
             lines \in SeqsUpTo(ProjectLines, MaxProjectLines)}

PackageJsonTexts ==
    {<<>>,
     <<[valid |-> FALSE, has_workspaces |-> FALSE, workspaces |-> <<>>]>>,
     <<[valid |-> TRUE, has_workspaces |-> FALSE, workspaces |-> <<>>]>>,
     <<[valid |-> TRUE, has_workspaces |-> TRUE, workspaces |-> <<"packages/*">>]>>,
     <<[valid |-> TRUE, has_workspaces |-> TRUE, workspaces |-> <<"build">>]>>}

PomTexts ==
    {<<>>, <<[xmlns |-> TRUE, has_modules |-> FALSE, modules |-> <<>>]>>}
    \cup {<<[xmlns |-> xmlns, has_modules |-> TRUE, modules |-> modules]>> :
             <<xmlns, modules>> \in BOOLEAN \X SeqsUpTo(ModuleNames, MaxModules)}

\* The solution directory built from the files of its sub-directories and
\* the three root files: its files, its directories, and what the root
\* files hold.
Solution(sub, sln, package_json, pom_xml) ==
    LET text == [f \in (IF sln = <<>> THEN {} ELSE {<<"App.sln">>})
                       \cup (IF package_json = <<>> THEN {} ELSE {<<"package.json">>})
                       \cup (IF pom_xml = <<>> THEN {} ELSE {<<"pom.xml">>}) |->
                    IF f = <<"App.sln">> THEN sln[1]
                    ELSE IF f = <<"package.json">> THEN package_json[1]
                    ELSE pom_xml[1]]
        files == sub \cup DOMAIN text
    IN  [files |-> files, dirs |-> Directories(files), text |-> text]

IdleDetect ==
    /\ solution = Solution({}, <<>>, <<>>, <<>>)
    /\ detected = <<>>

\* A solution with a .sln file or a workspace package.json carries one of
\* two pom.xml files; the others carry any. A solution without a .sln file
\* may hold the dashed directory as well.
InitDetect ==
    /\ \E sln \in SlnTexts, package_json \in PackageJsonTexts :
         \E sub \in SUBSET (SubFiles \cup IF sln = <<>> THEN DashedFiles ELSE {}) :
         \E pom_xml \in IF sln # <<>> \/ (package_json # <<>> /\ package_json[1].has_workspaces)
                        THEN {<<>>, <<[xmlns |-> TRUE, has_modules |-> TRUE,
                                       modules |-> <<"core">>]>>}
                        ELSE PomTexts :
             solution = Solution(sub, sln, package_json, pom_xml)
    /\ detected = <<>>

\* scanner._detect_projects(solution_path)
DetectProjects ==
    /\ detected = <<>>
    /\ detected' = <<detect_projects(solution)>>
    /\ UNCHANGED <<solution, licenseVars, registryVars, mergeVars, solutionVars, exportVars, pipelineVars, objectVars>>

(***************************************************************************)
(* The consolidated SBOM of a solution                                     *)
(***************************************************************************)

\* list(project_sboms.values())
DictValues(items) == [i \in 1..Len(items) |-> items[i].sbom]

\* [c.name for c in project_sbom.components]
ComponentNames(project_sbom) ==
    [i \in 1..Len(project_sbom.components) |-> project_sbom.components[i].name]

\* The loop that fills merged_sbom.relationships.
RECURSIVE AddRelationships(_, _)
AddRelationships(relationships, items) ==
    IF items = <<>> THEN relationships
    ELSE AddRelationships(
             DictSet(relationships, Head(items).name, ComponentNames(Head(items).sbom)),
             Tail(items))

\* The faulty variant: the manufacturer argument is stored even when it is
\* absent.
create_solution_sbom_overwrite(items, name, manufacturer_arg) ==
    IF items = <<>>
    THEN [status |-> "ValueError: No project SBOMs provided"]
    ELSE LET merged_sbom == merge_sboms(DictValues(items), name).sbom
         IN  [status |-> "returned",
              sbom |-> [merged_sbom EXCEPT
                           !.target_system = name,
                           !.manufacturer = manufacturer_arg,
                           !.relationships = AddRelationships(EmptyDict, items)]]

\* SolutionScanner.create_solution_sbom
create_solution_sbom(items, name, manufacturer_arg) ==
    IF items = <<>>
    THEN [status |-> "ValueError: No project SBOMs provided"]
    ELSE LET merged_sbom == merge_sboms(DictValues(items), name).sbom
         IN  [status |-> "returned",
              sbom |-> [merged_sbom EXCEPT
                           !.target_system = name,
                           !.manufacturer =
                               IF Truthy(manufacturer_arg) THEN manufacturer_arg ELSE @,
                           !.relationships = AddRelationships(EmptyDict, items)]]

\* The names of the projects of a solution, in the order of the dict.
ProjectName(i) == "Project " \o ToString(i)

IdleSolution ==
    /\ project_sboms = <<>>
    /\ solution_name = None
    /\ manufacturer = None
    /\ solution_sbom = <<>>

\* The dict of project SBOMs: at most MaxSboms projects that share at most
\* MaxMergeComponents components, each with its own manufacturer.
InitSolution ==
    /\ \E n \in 0..MaxSboms :
       \E flat \in SeqsUpTo(Components, MaxMergeComponents) :
       \E owner \in Cuts(Len(flat), n) :
       \E makers \in [1..n -> {None, "Test Inc"}] :
           project_sboms = [i \in 1..n |->
                               [name |-> ProjectName(i),
                                sbom |-> [SBOM(ProjectName(i), ProjectName(i), <<>>) EXCEPT
                                             !.manufacturer = makers[i],
                                             !.components = Share(flat, owner, i)]]]
    /\ solution_name = "Test Solution"
    /\ manufacturer \in {None, "", "Solution Inc"}
    /\ solution_sbom = <<>>

\* scanner.create_solution_sbom(project_sboms, solution_name, manufacturer)
CreateSolutionSbom ==
    /\ solution_sbom = <<>>
    /\ solution_sbom' = <<create_solution_sbom(project_sboms, solution_name, manufacturer)>>
    /\ UNCHANGED <<project_sboms, solution_name, manufacturer,
                   licenseVars, registryVars, mergeVars, detectVars, exportVars, pipelineVars, objectVars>>

(***************************************************************************)
(* Exporters                                                               *)
(***************************************************************************)

UpperChar(c) ==
    CASE c = "a" -> "A" [] c = "b" -> "B" [] c = "c" -> "C" [] c = "d" -> "D"
      [] c = "e" -> "E" [] c = "f" -> "F" [] c = "g" -> "G" [] c = "h" -> "H"
      [] c = "i" -> "I" [] c = "j" -> "J" [] c = "k" -> "K" [] c = "l" -> "L"
      [] c = "m" -> "M" [] c = "n" -> "N" [] c = "o" -> "O" [] c = "p" -> "P"
      [] c = "q" -> "Q" [] c = "r" -> "R" [] c = "s" -> "S" [] c = "t" -> "T"
      [] c = "u" -> "U" [] c = "v" -> "V" [] c = "w" -> "W" [] c = "x" -> "X"
      [] c = "y" -> "Y" [] c = "z" -> "Z" [] OTHER -> c

\* s.upper()
RECURSIVE Upper(_)
Upper(s) ==
    IF Len(s) = 0 THEN "" ELSE UpperChar(SubSeq(s, 1, 1)) \o Upper(Tail(s))

\* The score of a vulnerability that has none (Optional[float] = None).
\* Scores are whole numbers of the range the field admits.
NoScore == -1

Scores == 0..10

\* bool(score): None and 0.0 are falsy.
TruthyScore(score) == score # NoScore /\ score # 0

\* str(score) of a float with no fraction
FormatScore(score) == ToString(score) \o ".0"

\* Vulnerability(id=..., severity=..., score=...)
Vulnerability(id, severity, score) ==
    [id |-> id, severity |-> severity, score |-> score, description |-> None]

\* A dict entry that is set only under a condition.
When(condition, key, value) == IF condition THEN key :> value ELSE EmptyDict

\* The entries of license_info for the licenses of a component.
RECURSIVE license_info(_)
license_info(licenses) ==
    IF licenses = <<>> THEN <<>>
    ELSE LET license_obj == Head(licenses)
             entry == IF Truthy(license_obj.spdx_id) THEN <<license_obj.spdx_id>>
                      ELSE IF Truthy(license_obj.name)
                      THEN <<"LicenseRef-" \o Replace(license_obj.name, " ", "-")>>
                      ELSE <<>>
         IN  entry \o license_info(Tail(licenses))

\* The annotation of one vulnerability.
SpdxAnnotation(vuln) ==
    [annotationType |-> "REVIEW",
     annotator |-> "Tool: fda-sbom-generator",
     annotationComment |->
         "Vulnerability " \o vuln.id \o ": " \o vuln.severity \o " severity"
         \o (IF TruthyScore(vuln.score)
             THEN " (CVSS: " \o FormatScore(vuln.score) \o ")" ELSE "")]

\* The faulty variant: a package is identified by the name of its component.
SpdxPackage_byname(i, component) ==
    LET info == license_info(component.licenses) IN
    [SPDXID |-> "SPDXRef-Package-" \o component.name,
     name |-> component.name,
     downloadLocation |-> "NOASSERTION",
     filesAnalyzed |-> FALSE,
     copyrightText |-> "NOASSERTION"]
    @@ When(Truthy(component.version), "versionInfo", component.version)
    @@ When(Truthy(component.description), "description", component.description)
    @@ When(Truthy(component.package_url), "externalRefs",
            <<[referenceCategory |-> "PACKAGE-MANAGER", referenceType |-> "purl",
               referenceLocator |-> component.package_url]>>)
    @@ When(info # <<>>, "licenseConcluded", JoinWith(" AND ", info))
    @@ When(info # <<>>, "licenseDeclared", JoinWith(" AND ", info))
    @@ When(component.vulnerabilities # <<>>, "annotations",
            [j \in 1..Len(component.vulnerabilities) |->
                SpdxAnnotation(component.vulnerabilities[j])])

\* The package of the component at index i of enumerate(sbom.components).
SpdxPackage(i, component) ==
    LET info == license_info(component.licenses) IN
    [SPDXID |-> "SPDXRef-Package-" \o ToString(i + 1),
     name |-> component.name,
     downloadLocation |-> "NOASSERTION",
     filesAnalyzed |-> FALSE,
     copyrightText |-> "NOASSERTION"]
    @@ When(Truthy(component.version), "versionInfo", component.version)
    @@ When(Truthy(component.description), "description", component.description)
    @@ When(Truthy(component.package_url), "externalRefs",
            <<[referenceCategory |-> "PACKAGE-MANAGER", referenceType |-> "purl",
               referenceLocator |-> component.package_url]>>)
    @@ When(info # <<>>, "licenseConcluded", JoinWith(" AND ", info))
    @@ When(info # <<>>, "licenseDeclared", JoinWith(" AND ", info))
    @@ When(component.vulnerabilities # <<>>, "annotations",
            [j \in 1..Len(component.vulnerabilities) |->
                SpdxAnnotation(component.vulnerabilities[j])])

\* SPDXExporter.export: the document it writes.
SPDXExporter_export(s) ==
    LET root_package ==
            [SPDXID |-> "SPDXRef-Package",
             name |-> IF Truthy(s.target_system) THEN s.target_system
                      ELSE s.document_name,
             downloadLocation |-> "NOASSERTION",
             filesAnalyzed |-> FALSE,
             copyrightText |-> "NOASSERTION"]
            @@ When(Truthy(s.target_version), "versionInfo", s.target_version)
            @@ When(Truthy(s.manufacturer), "supplier",
                    "Organization: " \o Format(s.manufacturer))
        n == Len(s.components)
    IN  [spdxVersion |-> "SPDX-2.3",
         dataLicense |-> "CC0-1.0",
         SPDXID |-> "SPDXRef-DOCUMENT",
         name |-> s.document_name,
         packages |-> <<root_package>>
                      \o [i \in 1..n |-> SpdxPackage(i - 1, s.components[i])],
         relationships |->
             [i \in 1..n |->
                 [spdxElementId |-> "SPDXRef-Package",
                  relationshipType |-> "DEPENDS_ON",
                  relatedSpdxElement |-> "SPDXRef-Package-" \o ToString(i)]]]

\* The entry of one license in the licenses of a component.
CycloneDXLicense(license_obj) ==
    IF Truthy(license_obj.spdx_id) THEN "id" :> license_obj.spdx_id
    ELSE IF Truthy(license_obj.name) THEN "name" :> license_obj.name
    ELSE EmptyDict

\* The entry of one vulnerability in the vulnerabilities of a component.
CycloneDXVulnerability(vuln) ==
    [id |-> vuln.id, source |-> [name |-> "OSV", url |-> "https://osv.dev"]]
    @@ When(Truthy(vuln.description), "description", vuln.description)
    @@ When(TruthyScore(vuln.score), "ratings",
            <<[source |-> [name |-> "CVSS"],
               score |-> vuln.score,
               severity |-> Upper(vuln.severity)]>>)

\* The entry of one component.
CycloneDXComponent(component) ==
    [type |-> "library", name |-> component.name]
    @@ ("bom-ref" :> (component.name \o "@" \o
                      (IF Truthy(component.version) THEN component.version
                       ELSE "unknown")))
    @@ When(Truthy(component.version), "version", component.version)
    @@ When(Truthy(component.description), "description", component.description)
    @@ When(Truthy(component.package_url), "purl", component.package_url)
    @@ When(component.licenses # <<>>, "licenses",
            [j \in 1..Len(component.licenses) |->
                CycloneDXLicense(component.licenses[j])])
    @@ When(component.vulnerabilities # <<>>, "vulnerabilities",
            [j \in 1..Len(component.vulnerabilities) |->
                CycloneDXVulnerability(component.vulnerabilities[j])])

\* CycloneDXExporter.export: the document it writes.
CycloneDXExporter_export(s) ==
    [bomFormat |-> "CycloneDX",
     specVersion |-> "1.4",
     version |-> 1,
     metadata |->
         [tools |-> <<[vendor |-> "FDA SBOM Generator",
                       name |-> "fda-sbom-generator", version |-> "0.1.0"]>>]
         @@ When(Truthy(s.manufacturer) \/ Truthy(s.target_system), "component",
                 [type |-> "application",
                  name |-> IF Truthy(s.target_system) THEN s.target_system
                           ELSE s.document_name]
                 @@ When(Truthy(s.target_version), "version", s.target_version)
                 @@ When(Truthy(s.manufacturer), "supplier",
                         [name |-> s.manufacturer])),
     components |-> [i \in 1..Len(s.components) |->
                        CycloneDXComponent(s.components[i])]]

\* ET.SubElement(parent, tag) with its attributes and children
Element(tag, attrib, children) ==
    [tag |-> tag, attrib |-> attrib, children |-> children]

\* The faulty variant: the Payload element is written for every SBOM.
SWIDExporter_export_alwayspayload(s) ==
    LET n == Len(s.components)
        entity == Element("Entity",
                          [name |-> IF Truthy(s.manufacturer) THEN s.manufacturer
                                    ELSE "Unknown",
                           role |-> "tagCreator softwareCreator"],
                          <<>>)
        meta == Element("Meta", [generator |-> "fda-sbom-generator-0.1.0"], <<>>)
        File(component) ==
            Element("File",
                    [name |-> component.name]
                    @@ When(Truthy(component.version), "version", component.version),
                    <<>>)
        payload == <<Element("Payload", EmptyDict,
                       [i \in 1..n |->
                           Element("Directory", [name |-> s.components[i].name],
                                   <<File(s.components[i])>>)])>>
        links == [i \in 1..n |->
                     Element("Link",
                             [href |-> IF Truthy(s.components[i].package_url)
                                       THEN s.components[i].package_url ELSE "",
                              rel |-> "component"],
                             <<>>)]
    IN  Element("SoftwareIdentity",
                [xmlns |-> "http://standards.iso.org/iso/19770/-2/2015/schema.xsd",
                 name |-> s.document_name,
                 tagVersion |-> "0", corpus |-> "false", patch |-> "false",
                 supplemental |-> "false"]
                @@ When(Truthy(s.target_version), "version", s.target_version),
                <<entity, meta>> \o payload \o links)

\* SWIDExporter.export: the element tree it writes.
SWIDExporter_export(s) ==
    LET n == Len(s.components)
        entity == Element("Entity",
                          [name |-> IF Truthy(s.manufacturer) THEN s.manufacturer
                                    ELSE "Unknown",
                           role |-> "tagCreator softwareCreator"],
                          <<>>)
        meta == Element("Meta", [generator |-> "fda-sbom-generator-0.1.0"], <<>>)
        File(component) ==
            Element("File",
                    [name |-> component.name]
                    @@ When(Truthy(component.version), "version", component.version),
                    <<>>)
        payload == IF n > 0
                   THEN <<Element("Payload", EmptyDict,
                              [i \in 1..n |->
                                  Element("Directory", [name |-> s.components[i].name],
                                          <<File(s.components[i])>>)])>>
                   ELSE <<>>
        links == [i \in 1..n |->
                     Element("Link",
                             [href |-> IF Truthy(s.components[i].package_url)
                                       THEN s.components[i].package_url ELSE "",
                              rel |-> "component"],
                             <<>>)]
    IN  Element("SoftwareIdentity",
                [xmlns |-> "http://standards.iso.org/iso/19770/-2/2015/schema.xsd",
                 name |-> s.document_name,
                 tagVersion |-> "0", corpus |-> "false", patch |-> "false",
                 supplemental |-> "false"]
                @@ When(Truthy(s.target_version), "version", s.target_version),
                <<entity, meta>> \o payload \o links)

\* json.dump of an Optional[str]: null, or the text between double quotes.
json_dump_str(value) ==
    IF value = None THEN "null" ELSE "\"" \o value \o "\""

\* json.load of what json.dump wrote for an Optional[str].
json_load_str(text) ==
    IF text = "null" THEN None ELSE SubSeq(text, 2, Len(text) - 1)

\* json.dump of an Optional[float]
json_dump_score(score) ==
    IF score = NoScore THEN "null" ELSE FormatScore(score)

\* json.load of what json.dump wrote for an Optional[float].
json_load_score(text) ==
    IF text = "null" THEN NoScore
    ELSE CHOOSE score \in Scores : FormatScore(score) = text

\* The JSON object of a License.
json_dump_license(license) ==
    [spdx_id |-> json_dump_str(license.spdx_id), name |-> json_dump_str(license.name)]

\* The JSON object of a Vulnerability.
json_dump_vulnerability(vuln) ==
    [id |-> json_dump_str(vuln.id), severity |-> json_dump_str(vuln.severity),
     score |-> json_dump_score(vuln.score),
     description |-> json_dump_str(vuln.description)]

\* The JSON object of a Component.
json_dump_component(component) ==
    [name |-> json_dump_str(component.name),
     version |-> json_dump_str(component.version),
     package_manager |-> json_dump_str(component.package_manager),
     description |-> json_dump_str(component.description),
     package_url |-> json_dump_str(component.package_url),
     licenses |-> [i \in 1..Len(component.licenses) |->
                      json_dump_license(component.licenses[i])],
     vulnerabilities |-> [i \in 1..Len(component.vulnerabilities) |->
                             json_dump_vulnerability(component.vulnerabilities[i])]]

\* JSONExporter.export: sbom.dict() has the fields of the model as its keys,
\* and json.dump writes it.
JSONExporter_export(s) ==
    [document_id |-> json_dump_str(s.document_id),
     document_name |-> json_dump_str(s.document_name),
     document_namespace |-> json_dump_str(s.document_namespace),
     created |-> json_dump_str(s.created),
     target_system |-> json_dump_str(s.target_system),
     target_version |-> json_dump_str(s.target_version),
     creators |-> [i \in 1..Len(s.creators) |-> json_dump_str(s.creators[i])],
     manufacturer |-> json_dump_str(s.manufacturer),
     fda_submission_id |-> json_dump_str(s.fda_submission_id),
     components |-> [i \in 1..Len(s.components) |-> json_dump_component(s.components[i])],
     relationships |-> s.relationships]

\* Component(**data) on a component object read back from the JSON file:
\* each license and each vulnerability goes through its model again.
Component_parse(data) ==
    [name |-> json_load_str(data.name),
     version |-> json_load_str(data.version),
     package_manager |-> json_load_str(data.package_manager),
     description |-> json_load_str(data.description),
     package_url |-> json_load_str(data.package_url),
     licenses |-> [i \in 1..Len(data.licenses) |->
                      License(json_load_str(data.licenses[i].spdx_id),
                              json_load_str(data.licenses[i].name))],
     vulnerabilities |-> [i \in 1..Len(data.vulnerabilities) |->
                             [Vulnerability(
                                  json_load_str(data.vulnerabilities[i].id),
                                  json_load_str(data.vulnerabilities[i].severity),
                                  json_load_score(data.vulnerabilities[i].score))
                              EXCEPT !.description =
                                  json_load_str(data.vulnerabilities[i].description)]]]

\* SBOM(**json.load(f)): the model rebuilt from the native JSON file.
SBOM_parse(data) ==
    [document_id |-> json_load_str(data.document_id),
     document_name |-> json_load_str(data.document_name),
     document_namespace |-> json_load_str(data.document_namespace),
     created |-> json_load_str(data.created),
     target_system |-> json_load_str(data.target_system),
     target_version |-> json_load_str(data.target_version),
     creators |-> [i \in 1..Len(data.creators) |-> json_load_str(data.creators[i])],
     manufacturer |-> json_load_str(data.manufacturer),
     fda_submission_id |-> json_load_str(data.fda_submission_id),
     components |-> [i \in 1..Len(data.components) |-> Component_parse(data.components[i])],
     relationships |-> data.relationships]

\* The registry of exporters.  A member of SBOMFormat is a str that hashes
\* and compares as its value, so the keys are the four lower-case names.
EXPORTERS ==
    [spdx |-> "SPDXExporter", cyclonedx |-> "CycloneDXExporter",
     swid |-> "SWIDExporter", json |-> "JSONExporter"]

\* The faulty variant: an unknown format name falls back to the native format.
get_exporter_lenient(name) ==
    IF name \in DOMAIN EXPORTERS
    THEN [status |-> "returned", exporter |-> EXPORTERS[name]]
    ELSE [status |-> "returned", exporter |-> "JSONExporter"]

\* get_exporter
get_exporter(name) ==
    IF name \in DOMAIN EXPORTERS
    THEN [status |-> "returned", exporter |-> EXPORTERS[name]]
    ELSE [status |-> "ValueError: Unsupported format: " \o name]

\* exporter.export(sbom, output_path): what the file holds afterwards
export(exporter, s) ==
    CASE exporter = "SPDXExporter" -> SPDXExporter_export(s)
      [] exporter = "CycloneDXExporter" -> CycloneDXExporter_export(s)
      [] exporter = "SWIDExporter" -> SWIDExporter_export(s)
      [] exporter = "JSONExporter" -> JSONExporter_export(s)

\* export_sbom: how the call ended and what the file holds afterwards.  The
\* file is a sequence that is empty when the file does not exist.
export_sbom(s, file, name) ==
    LET exporter == get_exporter(name) IN
    IF exporter.status # "returned"
    THEN [status |-> exporter.status, file |-> file]
    ELSE [status |-> "returned", file |-> <<export(exporter.exporter, s)>>]

\* The most components an exported SBOM holds here.
MaxExportComponents == 2

\* The format names handed to export_sbom.
FormatNames == {"spdx", "cyclonedx", "swid", "json", "SPDX", "invalid_format", ""}

\* License(name=..., spdx_id=...) as the exporter tests build them
MIT == License("MIT", "MIT")

Apache == License("Apache-2.0", "Apache-2.0")

\* The components of an exported SBOM: one with no version, two that share a
\* name, one that shares name and version with another package manager's,
\* one with two SPDX licenses, one with a license known by name only, and one
\* with a vulnerability of the given score.
ExportComponents(score) ==
    {Component("lib", None, "npm", None),
     Component("lib", "1.0.0", "npm", "a library"),
     Component("lib", "1.0.0", "pip", "a library"),
     [Component("multi-license-lib", "1.0.0", "npm", None) EXCEPT
         !.licenses = <<MIT, Apache>>],
     [Component("custom-lib", "1.0.0", "npm", None) EXCEPT
         !.licenses = <<License(None, "Custom License")>>],
     [Component("vulnerable-lib", "1.0.0", "npm", None) EXCEPT
         !.vulnerabilities = <<Vulnerability("CVE-2023-0001", "high", score)>>]}

IdleExport ==
    /\ exported_sbom = SBOM("Idle", None, <<>>)
    /\ format_name = "json"
    /\ output_file = <<>>
    /\ export_result = <<>>
    /\ reloaded = <<>>

\* The SBOM to export, the format name, and an output path that names no
\* file yet or a file written earlier.
InitExport ==
    /\ \E score \in Scores \cup {NoScore} :
       \E components \in SeqsUpTo(ExportComponents(score), MaxExportComponents) :
       \E target_system \in {None, "Device"}, maker \in {None, "Acme"} :
           exported_sbom = [SBOM("Test SBOM", target_system, <<"Tool: fda-sbom-generator">>)
                               EXCEPT !.manufacturer = maker,
                                      !.components = components]
    /\ format_name \in FormatNames
    /\ output_file \in {<<>>, <<[earlier |-> "content"]>>}
    /\ export_result = <<>>
    /\ reloaded = <<>>

\* export_sbom(sbom, output_path, format_name)
ExportSbom ==
    /\ export_result = <<>>
    /\ LET result == export_sbom(exported_sbom, output_file, format_name) IN
           /\ export_result' = <<result.status>>
           /\ output_file' = result.file
    /\ UNCHANGED <<exported_sbom, format_name, reloaded,
                   licenseVars, registryVars, mergeVars, detectVars, solutionVars,
                   pipelineVars, objectVars>>

\* SBOM(**json.load(f)) on the file the native JSON exporter wrote
ReloadSbom ==
    /\ export_result = <<"returned">>
    /\ format_name = "json"
    /\ reloaded = <<>>
    /\ reloaded' = <<SBOM_parse(output_file[1])>>
    /\ UNCHANGED <<exported_sbom, format_name, output_file, export_result,
                   licenseVars, registryVars, mergeVars, detectVars, solutionVars,
                   pipelineVars, objectVars>>

(***************************************************************************)
(* generate_sbom, scan_solution and the compliance report                  *)
(***************************************************************************)

\* The characters of a string.
Chars(s) == {SubSeq(s, i, i) : i \in 1..Len(s)}

\* [a-zA-Z0-9_-]
NameChars == Chars("abcdefghijklmnopqrstuvwxyzABCDEFGHIJKLMNOPQRSTUVWXYZ0123456789_-")

\* [>=<~!]
OperatorChars == Chars(">=<~!")

\* [0-9.]
VersionChars == Chars("0123456789.")

\* The length of the longest prefix of s made of the characters: what a
\* greedy character class with + consumes.
RECURSIVE Span(_, _)
Span(s, chars) ==
    IF s # "" /\ SubSeq(s, 1, 1) \in chars
    THEN 1 + Span(SubSeq(s, 2, Len(s)), chars)
    ELSE 0

\* PythonScanner._parse_requirement_line: <<>> for None, else <<Component>>.
parse_requirement_line(line) ==
    LET n == Span(line, NameChars)
        after_name == SubSeq(line, n + 1, Len(line))
        o == Span(after_name, OperatorChars)
        after_operator == SubSeq(after_name, o + 1, Len(after_name))
        v == Span(after_operator, VersionChars)
        name == SubSeq(line, 1, n)
        version == SubSeq(after_operator, 1, v)
    IN  IF n > 0 /\ o > 0 /\ v > 0
        THEN <<[Component(name, version, "pip", None) EXCEPT
                   !.package_url = "pkg:pypi/" \o name \o "@" \o version]>>
        ELSE IF n > 0 /\ n = Len(line)
        THEN <<[Component(name, None, "pip", None) EXCEPT
                   !.package_url = "pkg:pypi/" \o name]>>
        ELSE <<>>

\* PythonScanner._parse_requirements_txt on the lines of the file
RECURSIVE parse_requirements_txt(_)
parse_requirements_txt(lines) ==
    IF lines = <<>> THEN <<>>
    ELSE LET line == Strip(Head(lines)) IN
         (IF line # "" /\ ~StartsWith(line, "#")
          THEN parse_requirement_line(line) ELSE <<>>)
             \o parse_requirements_txt(Tail(lines))

\* PythonScanner._parse_pyproject_toml on the list project.dependencies
RECURSIVE parse_pyproject_toml(_)
parse_pyproject_toml(dependencies) ==
    IF dependencies = <<>> THEN <<>>
    ELSE parse_requirement_line(Head(dependencies))
             \o parse_pyproject_toml(Tail(dependencies))

\* PythonScanner.scan.  A file of the project is <<>> when it does not
\* exist and <<its entries>> when it does.
PythonScanner_scan(p) ==
    (IF p.requirements_txt # <<>>
     THEN parse_requirements_txt(p.requirements_txt[1]) ELSE <<>>)
        \o (IF p.pyproject_toml # <<>>
            THEN parse_pyproject_toml(p.pyproject_toml[1]) ELSE <<>>)

\* The files below the root of a Python project.
ProjectFiles(p) ==
    (IF p.requirements_txt # <<>> THEN {"requirements.txt"} ELSE {})
        \cup (IF p.pyproject_toml # <<>> THEN {"pyproject.toml"} ELSE {})

\* generator._scan_project(project_path) on a Python project: the scanners
\* of the registry that apply, each with what its scan() returns; the project
\* holds no binary file for FileScanner.
SBOMGenerator_scan_project(p) ==
    LET applicable_scanners == get_applicable_scanners(ScannerRegistry_init, ProjectFiles(p))
    IN  scan_project(applicable_scanners,
                     [i \in 1..Len(applicable_scanners) |->
                         IF applicable_scanners[i] = "PythonScanner"
                         THEN Returned(PythonScanner_scan(p))
                         ELSE Returned(<<>>)])

\* What the vulnerability lookup service does in one call.
AnalyzerOutcomes == {"unreachable", "no vulnerabilities", "vulnerable"}

\* SecurityAnalyzer.scan_all_components(sbom): it annotates the components
\* with the vulnerabilities the lookup service reports, or the lookup fails.
SecurityAnalyzer_scan_all_components(s, outcome) ==
    CASE outcome = "unreachable" -> [raised |-> TRUE, sbom |-> s]
      [] outcome = "no vulnerabilities" -> [raised |-> FALSE, sbom |-> s]
      [] outcome = "vulnerable" ->
             [raised |-> FALSE,
              sbom |-> [s EXCEPT !.components =
                           [i \in 1..Len(s.components) |->
                               [s.components[i] EXCEPT !.vulnerabilities =
                                   Append(@, Vulnerability("CVE-2023-0001", "high", 7))]]]]

\* SecurityAnalyzer.analyze_sbom(sbom): the totals over the vulnerabilities
\* the components carry.
RECURSIVE CountVulnerabilities(_)
CountVulnerabilities(components) ==
    IF components = <<>> THEN 0
    ELSE Len(Head(components).vulnerabilities) + CountVulnerabilities(Tail(components))

SecurityAnalyzer_analyze_sbom(s) ==
    [total_vulnerabilities |-> CountVulnerabilities(s.components),
     recommendations |-> <<>>]

\* progress_callback(message), as an event of the call
Progress(message) == "progress_callback: " \o message

\* The faulty variant: the vulnerability scan runs whatever the flag says.
vulnerability_step_always(state, include_vulnerabilities, progress_callback, outcome) ==
    LET announced ==
            IF progress_callback
            THEN Append(state.trace, Progress("Scanning for vulnerabilities..."))
            ELSE state.trace
        scanned == SecurityAnalyzer_scan_all_components(state.sbom[1], outcome)
    IN  IF scanned.raised
        THEN [status |-> "ConnectionError", sbom |-> <<>>,
              trace |-> Append(announced, "scan_all_components")]
        ELSE [status |-> "returned", sbom |-> <<scanned.sbom>>,
              trace |-> Append(announced, "scan_all_components")]

\* generate_sbom, the "if include_vulnerabilities:" block.  What the
\* analyzer raises leaves generate_sbom.
vulnerability_step(state, include_vulnerabilities, progress_callback, outcome) ==
    IF ~include_vulnerabilities THEN state
    ELSE
    LET announced ==
            IF progress_callback
            THEN Append(state.trace, Progress("Scanning for vulnerabilities..."))
            ELSE state.trace
        scanned == SecurityAnalyzer_scan_all_components(state.sbom[1], outcome)
    IN  IF scanned.raised
        THEN [status |-> "ConnectionError", sbom |-> <<>>,
              trace |-> Append(announced, "scan_all_components")]
        ELSE [status |-> "returned", sbom |-> <<scanned.sbom>>,
              trace |-> Append(announced, "scan_all_components")]

\* The faulty variant: the project path is not tested.
generate_sbom_unchecked(project_exists, project_name, scan, target_system, manufacturer_arg, include_vulnerabilities, progress_callback, outcome) ==
    LET name == IF Truthy(target_system) THEN target_system ELSE project_name
        created == [SBOM(name, name, <<"fda-sbom-generator-0.1.0">>)
                       EXCEPT !.manufacturer = manufacturer_arg]
        announced == <<"SBOM">> \o
                     (IF progress_callback
                      THEN <<Progress("Scanning project for components...")>>
                      ELSE <<>>)
        components == IF project_exists THEN scan.components ELSE <<>>
    IN  vulnerability_step(
            [status |-> "returned",
             sbom |-> <<[created EXCEPT !.components = components]>>,
             trace |-> announced \o <<"_scan_project">>
                           \o [i \in 1..Len(components) |-> "add_component"]],
            include_vulnerabilities, progress_callback, outcome)

\* SBOMGenerator.generate_sbom: how the call ended, the SBOM it returned, and
\* the calls it made in order.  scan is what _scan_project does on the
\* project, outcome what the lookup service does.
generate_sbom(project_exists, project_name, scan, target_system, manufacturer_arg, include_vulnerabilities, progress_callback, outcome) ==
    IF ~project_exists
    THEN [status |-> "FileNotFoundError: Project path does not exist: " \o project_name,
          sbom |-> <<>>, trace |-> <<>>]
    ELSE
    LET name == IF Truthy(target_system) THEN target_system ELSE project_name
        created == [SBOM(name, name, <<"fda-sbom-generator-0.1.0">>)
                       EXCEPT !.manufacturer = manufacturer_arg]
        announced == <<"SBOM">> \o
                     (IF progress_callback
                      THEN <<Progress("Scanning project for components...")>>
                      ELSE <<>>)
        components == scan.components
    IN  vulnerability_step(
            [status |-> "returned",
             sbom |-> <<[created EXCEPT !.components = components]>>,
             trace |-> announced \o <<"_scan_project">>
                           \o [i \in 1..Len(components) |-> "add_component"]],
            include_vulnerabilities, progress_callback, outcome)

\* list(projects.items()): the names of a project map, in dict order.
RECURSIVE DictKeys(_)
DictKeys(d) ==
    IF DOMAIN d = {} THEN <<>>
    ELSE LET key == CHOOSE k \in DOMAIN d : TRUE
         IN <<key>> \o DictKeys([k \in DOMAIN d \ {key} |-> d[k]])

\* What the scanners report for a project of a solution here: one component.
ProjectScan(project_name) ==
    scan_project(<<"FileScanner">>,
                 <<Returned(<<[Component(project_name, "1.0.0", "generic", None)
                                  EXCEPT !.licenses = <<License("MIT", "MIT")>>]>>)>>)

\* SolutionScanner.scan_solution, the loop over projects.items(): an SBOM
\* for each project whose generate_sbom returns; what generate_sbom raises
\* is printed as a warning.  The lookup service fails for the projects in
\* unreachable.
RECURSIVE ScanProjects(_, _, _, _, _, _, _, _)
ScanProjects(acc, projects, names, i, manufacturer_arg, include_vulnerabilities, progress_callback, unreachable) ==
    IF i > Len(names) THEN acc
    ELSE
    LET project_name == names[i]
        told == IF progress_callback
                THEN Append(acc.trace,
                            Progress("Scanning project " \o ToString(i) \o "/"
                                         \o ToString(Len(names)) \o ": "
                                         \o project_name))
                ELSE acc.trace
        generated ==
            generate_sbom(TRUE,
                          IF projects[project_name] = SolutionPath
                          THEN SolutionDirName
                          ELSE PathName(projects[project_name]),
                          ProjectScan(project_name), project_name,
                          manufacturer_arg, include_vulnerabilities, FALSE,
                          IF project_name \in unreachable
                          THEN "unreachable" ELSE "no vulnerabilities")
    IN  ScanProjects(
            IF generated.status = "returned"
            THEN [project_sboms |-> DictSet(acc.project_sboms, project_name,
                                            generated.sbom[1]),
                  trace |-> told \o generated.trace]
            ELSE [project_sboms |-> acc.project_sboms,
                  trace |-> told \o generated.trace
                                \o <<"print: Warning: Failed to scan project "
                                         \o project_name>>],
            projects, names, i + 1, manufacturer_arg, include_vulnerabilities,
            progress_callback, unreachable)

\* scan_solution after the path test, on the project map of _detect_projects
ScanDetected(projects, names, manufacturer_arg, include_vulnerabilities, progress_callback, unreachable) ==
    LET done == ScanProjects(
                    [project_sboms |-> EmptyDict,
                     trace |-> <<"_detect_projects">> \o
                               (IF progress_callback
                                THEN <<Progress("Found " \o ToString(Len(names))
                                                    \o " projects in solution")>>
                                ELSE <<>>)],
                    projects, names, 1, manufacturer_arg, include_vulnerabilities,
                    progress_callback, unreachable)
    IN  [status |-> "returned", project_sboms |-> done.project_sboms,
         trace |-> done.trace]

\* SolutionScanner.scan_solution: how the call ended, the map it returned
\* and the calls it made in order.
scan_solution(solution_exists, s, manufacturer_arg, include_vulnerabilities, progress_callback, unreachable) ==
    IF ~solution_exists
    THEN [status |-> "FileNotFoundError: Solution path does not exist: " \o SolutionDirName,
          project_sboms |-> EmptyDict, trace |-> <<>>]
    ELSE ScanDetected(detect_projects(s).projects, DictKeys(detect_projects(s).projects),
                      manufacturer_arg, include_vulnerabilities, progress_callback,
                      unreachable)

\* The loop over the components in SBOM.validate_fda_compliance.
RECURSIVE ComponentIssues(_)
ComponentIssues(components) ==
    IF components = <<>> THEN <<>>
    ELSE LET component == Head(components) IN
         (IF ~Truthy(component.name) THEN <<"Component name is required">> ELSE <<>>)
         \o (IF ~Truthy(component.version)
             THEN <<"Component version is required for " \o Format(component.name)>>
             ELSE <<>>)
         \o (IF component.licenses = <<>>
             THEN <<"License information is required for " \o Format(component.name)>>
             ELSE <<>>)
         \o ComponentIssues(Tail(components))

\* SBOM.validate_fda_compliance
validate_fda_compliance(s) ==
    (IF ~Truthy(s.document_id) THEN <<"Document ID is required">> ELSE <<>>)
    \o (IF ~Truthy(s.document_name) THEN <<"Document name is required">> ELSE <<>>)
    \o (IF ~Truthy(s.manufacturer)
        THEN <<"Manufacturer is required for FDA compliance">> ELSE <<>>)
    \o (IF s.components = <<>>
        THEN <<"SBOM must contain at least one component">> ELSE <<>>)
    \o ComponentIssues(s.components)

\* SBOMGenerator.validate_sbom: the SBOMReport
validate_sbom(s) ==
    LET compliance_issues == validate_fda_compliance(s)
        security_analysis == SecurityAnalyzer_analyze_sbom(s)
        fda_compliant == Len(compliance_issues) = 0
    IN  [total_components |-> Len(s.components),
         total_vulnerabilities |-> security_analysis.total_vulnerabilities,
         fda_compliant |-> fda_compliant,
         compliance_issues |-> compliance_issues,
         recommendations |->
             (IF ~fda_compliant
              THEN <<"Address FDA compliance issues before submission">> ELSE <<>>)
             \o security_analysis.recommendations
             \o (IF security_analysis.total_vulnerabilities > 0
                 THEN <<"Document risk assessment for all identified vulnerabilities">>
                 ELSE <<>>)]

\* SBOMGenerator.generate_compliance_checklist
generate_compliance_checklist(s) ==
    LET components == [i \in 1..Len(s.components) |-> s.components[i]]
        all(Test(_)) == \A i \in 1..Len(components) : Test(components[i])
        has_name(c) == Truthy(c.name)
        has_version(c) == Truthy(c.version)
        has_licenses(c) == c.licenses # <<>>
        has_package_url(c) == Truthy(c.package_manager) => Truthy(c.package_url)
    IN  [document_has_unique_id |-> Truthy(s.document_id),
         document_has_name |-> Truthy(s.document_name),
         document_has_namespace |-> Truthy(s.document_namespace),
         document_has_creation_date |-> Truthy(s.created),
         document_has_creator |-> Len(s.creators) > 0,
         has_target_system |-> Truthy(s.target_system),
         has_manufacturer |-> Truthy(s.manufacturer),
         has_components |-> Len(components) > 0,
         all_components_have_names |-> Len(components) = 0 \/ all(has_name),
         all_components_have_versions |-> Len(components) = 0 \/ all(has_version),
         all_components_have_licenses |-> Len(components) = 0 \/ all(has_licenses),
         has_vulnerability_scan |->
             Len(components) = 0
                 \/ \E i \in 1..Len(components) :
                        "vulnerabilities" \in DOMAIN components[i],
         has_package_urls |-> Len(components) = 0 \/ all(has_package_url)]

\* The most lines of a requirements.txt here.
MaxRequirements == 2

\* The lines of a requirements.txt.
RequirementLines == {"requests==2.28.0", "click>=8.0", "pytest", "# comment"}

\* The components of an SBOM built by hand: one with version, license and
\* package URL, one without package URL, one without license, one without
\* version.
HandBuiltComponents ==
    {[Component("requests", "2.28.0", "pip", None) EXCEPT
         !.licenses = <<License("Apache-2.0", "Apache-2.0")>>,
         !.package_url = "pkg:pypi/requests@2.28.0"],
     [Component("lodash", "4.17.21", "npm", None) EXCEPT
         !.licenses = <<License("MIT", "MIT")>>],
     Component("click", "8.0", "pip", None),
     [Component("pytest", None, "pip", None) EXCEPT
         !.licenses = <<License("MIT", "MIT")>>]}

\* The most components of an SBOM built by hand.
MaxHandBuilt == 2

\* The call that nobody makes.
NoCall ==
    [name |-> "none", exists |-> FALSE,
     project |-> [requirements_txt |-> <<>>, pyproject_toml |-> <<>>],
     solution |-> Solution({}, <<>>, <<>>, <<>>),
     target_system |-> None, manufacturer |-> None,
     include_vulnerabilities |-> FALSE, progress_callback |-> FALSE,
     outcome |-> "no vulnerabilities", unreachable |-> {}]

IdlePipeline ==
    /\ call = NoCall
    /\ call_trace = <<>>
    /\ call_result = <<>>
    /\ bom = <<>>
    /\ scanned_sboms = EmptyDict
    /\ report = <<>>
    /\ checklist = <<>>

\* A call of generate_sbom on a Python project directory "device-api".
InitGenerate ==
    /\ \E exists \in BOOLEAN, include_vulnerabilities \in BOOLEAN,
          progress_callback \in BOOLEAN,
          target_system \in {None, "Medical Device API"},
          maker \in {None, "Acme Medical Devices Inc"} :
       \E outcome \in IF include_vulnerabilities THEN AnalyzerOutcomes
                      ELSE {"no vulnerabilities"},
          requirements_txt \in {<<>>} \cup
              {<<lines>> : lines \in SeqsUpTo(RequirementLines, MaxRequirements)},
          pyproject_toml \in {<<>>, <<<<"click>=8.0">>>>} :
           call = [NoCall EXCEPT
                      !.name = "generate_sbom", !.exists = exists,
                      !.project = [requirements_txt |-> requirements_txt,
                                   pyproject_toml |-> pyproject_toml],
                      !.target_system = target_system, !.manufacturer = maker,
                      !.include_vulnerabilities = include_vulnerabilities,
                      !.progress_callback = progress_callback,
                      !.outcome = outcome]
    /\ call_trace = <<>>
    /\ call_result = <<>>
    /\ bom = <<>>
    /\ scanned_sboms = EmptyDict
    /\ report = <<>>
    /\ checklist = <<>>

\* The files of the solutions handed to scan_solution.
ScannedSubFiles == {<<"App", "App.csproj">>, <<"core", "pom.xml">>}

\* A call of scan_solution.
InitScanSolution ==
    /\ \E exists \in BOOLEAN, include_vulnerabilities \in BOOLEAN,
          progress_callback \in BOOLEAN, maker \in {None, "Acme Medical Devices Inc"},
          sub \in SUBSET ScannedSubFiles :
       \E unreachable \in IF include_vulnerabilities
                          THEN SUBSET {get_relative_name(Parent(f)) : f \in sub}
                          ELSE {{}} :
           call = [NoCall EXCEPT
                      !.name = "scan_solution", !.exists = exists,
                      !.solution = Solution(sub, <<>>, <<>>, <<>>),
                      !.manufacturer = maker,
                      !.include_vulnerabilities = include_vulnerabilities,
                      !.progress_callback = progress_callback,
                      !.unreachable = unreachable]
    /\ call_trace = <<>>
    /\ call_result = <<>>
    /\ bom = <<>>
    /\ scanned_sboms = EmptyDict
    /\ report = <<>>
    /\ checklist = <<>>

\* An SBOM built by hand, as the tests build them, before validate_sbom.
InitHandBuilt ==
    /\ call = NoCall
    /\ call_trace = <<>>
    /\ call_result = <<>>
    /\ \E document_id \in {"", "fda-compliant-001"},
          document_namespace \in {"", "https://acme.com/sbom/fda-compliant-001"},
          creators \in {<<>>, <<"fda-sbom-generator-0.1.0">>},
          target_system \in {None, "Cardiac Monitor"},
          maker \in {None, "Acme Medical Devices Inc"},
          components \in SeqsUpTo(HandBuiltComponents, MaxHandBuilt) :
           bom = <<[SBOM("FDA Compliant SBOM", target_system, creators) EXCEPT
                       !.document_id = document_id,
                       !.document_namespace = document_namespace,
                       !.manufacturer = maker,
                       !.components = components]>>
    /\ scanned_sboms = EmptyDict
    /\ report = <<>>
    /\ checklist = <<>>

\* generator.generate_sbom(project_path, ...)
GenerateSbom ==
    /\ call.name = "generate_sbom"
    /\ call_result = <<>>
    /\ LET result == generate_sbom(call.exists, "device-api",
                                   SBOMGenerator_scan_project(call.project),
                                   call.target_system, call.manufacturer,
                                   call.include_vulnerabilities,
                                   call.progress_callback, call.outcome)
       IN  /\ call_result' = <<result.status>>
           /\ call_trace' = result.trace
           /\ bom' = result.sbom
    /\ UNCHANGED <<call, scanned_sboms, report, checklist,
                   licenseVars, registryVars, mergeVars, detectVars, solutionVars,
                   exportVars, objectVars>>

\* scanner.scan_solution(solution_path, ...)
ScanSolution ==
    /\ call.name = "scan_solution"
    /\ call_result = <<>>
    /\ LET result == scan_solution(call.exists, call.solution, call.manufacturer,
                                   call.include_vulnerabilities,
                                   call.progress_callback, call.unreachable)
       IN  /\ call_result' = <<result.status>>
           /\ call_trace' = result.trace
           /\ scanned_sboms' = result.project_sboms
    /\ UNCHANGED <<call, bom, report, checklist,
                   licenseVars, registryVars, mergeVars, detectVars, solutionVars,
                   exportVars, objectVars>>

\* generator.validate_sbom(sbom)
ValidateSbom ==
    /\ bom # <<>>
    /\ report = <<>>
    /\ report' = <<validate_sbom(bom[1])>>
    /\ UNCHANGED <<call, call_trace, call_result, bom, scanned_sboms, checklist,
                   licenseVars, registryVars, mergeVars, detectVars, solutionVars,
                   exportVars, objectVars>>

\* generator.generate_compliance_checklist(sbom)
GenerateComplianceChecklist ==
    /\ bom # <<>>
    /\ checklist = <<>>
    /\ checklist' = <<generate_compliance_checklist(bom[1])>>
    /\ UNCHANGED <<call, call_trace, call_result, bom, scanned_sboms, report,
                   licenseVars, registryVars, mergeVars, detectVars, solutionVars,
                   exportVars, objectVars>>

(***************************************************************************)
(* Component objects: merge_sboms and update_component_licenses            *)
(***************************************************************************)

\* A list of components is a list of references to Component objects; heap
\* maps each reference to the fields the object has now.

\* The SBOM as the code reads it: each reference with the fields of its
\* object.
Deref(h, b) ==
    [b EXCEPT !.components =
        [j \in 1..Len(b.components) |->
            [ref |-> b.components[j]] @@ h[b.components[j]]]]

\* The references of the components of an SBOM read through Deref.
Refs(b) ==
    [b EXCEPT !.components = [j \in 1..Len(b.components) |-> b.components[j].ref]]

\* SBOMGenerator.merge_sboms on SBOM objects: merged_sbom.add_component
\* appends the component object of the source SBOM itself.
merge_sbom_objects(h, list, merged_name) ==
    LET result == merge_sboms([i \in 1..Len(list) |-> Deref(h, list[i])], merged_name)
    IN  IF result.status = "returned"
        THEN [status |-> "returned", sbom |-> <<Refs(result.sbom)>>]
        ELSE [status |-> result.status, sbom |-> <<>>]

\* SBOMGenerator.update_component_licenses, the loop over sbom.components:
\* the heap after it.  answers gives the license text PyPI holds for a
\* package name, None when the request fails or holds none.
RECURSIVE update_component_licenses(_, _, _)
update_component_licenses(h, refs, answers) ==
    IF refs = <<>> THEN h
    ELSE LET component == h[Head(refs)]
             fetched == IF component.name \in DOMAIN answers
                        THEN answers[component.name] ELSE None
         IN  update_component_licenses(
                 IF /\ component.licenses = <<>>
                    /\ component.package_manager = "pip"
                    /\ Truthy(fetched)
                 THEN [h EXCEPT ![Head(refs)].licenses =
                          <<SBOMGenerator_normalize_license(fetched)>>]
                 ELSE h,
                 Tail(refs), answers)

\* The components of the SBOMs merged here.
ObjectComponents ==
    {[Component("requests", "2.28.0", "pip", None) EXCEPT
         !.package_url = "pkg:pypi/requests@2.28.0"],
     [Component("click", "8.0", "pip", None) EXCEPT
         !.package_url = "pkg:pypi/click@8.0"],
     [Component("lodash", "4.17.21", "npm", None) EXCEPT
         !.licenses = <<License("MIT", "MIT")>>]}

\* What PyPI answers for the license of a package.
LicenseAnswers == {None, "MIT License"}

IdleObjects ==
    /\ heap = <<>>
    /\ source_boms = <<>>
    /\ merged_bom = <<>>
    /\ pypi = EmptyDict

\* The SBOMs to merge: at most MaxMergeComponents component objects, cut
\* into consecutive shares, one for each of at most MaxSboms SBOMs.
InitObjects ==
    /\ \E n \in 1..MaxSboms :
       \E objects \in SeqsUpTo(ObjectComponents, MaxMergeComponents) :
       \E owner \in Cuts(Len(objects), n) :
           /\ heap = objects
           /\ source_boms =
                  [i \in 1..n |->
                      [SBOM("Project", None, <<>>) EXCEPT
                          !.components =
                              Share([j \in 1..Len(objects) |-> j], owner, i)]]
    /\ merged_bom = <<>>
    /\ pypi \in [{"requests", "click"} -> LicenseAnswers]

\* merged = generator.merge_sboms(sboms, "Merged")
MergeSbomObjects ==
    /\ merged_bom = <<>>
    /\ source_boms # <<>>
    /\ merged_bom' = merge_sbom_objects(heap, source_boms, "Merged").sbom
    /\ UNCHANGED <<heap, source_boms, pypi,
                   licenseVars, registryVars, mergeVars, detectVars, solutionVars,
                   exportVars, pipelineVars>>

\* generator.update_component_licenses(merged)
UpdateComponentLicenses ==
    /\ merged_bom # <<>>
    /\ heap' = update_component_licenses(heap, merged_bom[1].components, pypi)
    /\ UNCHANGED <<source_boms, merged_bom, pypi,
                   licenseVars, registryVars, mergeVars, detectVars, solutionVars,
                   exportVars, pipelineVars>>

(***************************************************************************)
(* Specifications                                                          *)
(***************************************************************************)

\* The subsystems a specification leaves alone keep their first values.
IdleRest == IdleDetect /\ IdleSolution /\ IdleExport

\* No call of generate_sbom or scan_solution, no SBOM at hand, no objects.
IdleLater == IdlePipeline /\ IdleObjects

IdleBase == InitRegistry /\ IdleLicense /\ IdleMerge

\* The scanner registry.
Init == InitRegistry /\ IdleLicense /\ IdleMerge /\ IdleRest /\ IdleLater

Next ==
    \/ RegisterScanner
    \/ GetApplicableScanners

Spec == Init /\ [][Next]_vars

\* One project scan.
ScanInit == InitScan /\ IdleLicense /\ IdleMerge /\ IdleRest /\ IdleLater

ScanNext == ScanProject

SpecScan == ScanInit /\ [][ScanNext]_vars

\* License normalization by the scanners and by the generator.
LicenseInit == InitLicense /\ InitRegistry /\ IdleMerge /\ IdleRest /\ IdleLater

LicenseNext ==
    \/ ScannerNormalize
    \/ GeneratorNormalize

SpecLicense == LicenseInit /\ [][LicenseNext]_vars

\* The merge of SBOMs.
MergeInit == InitMerge /\ InitRegistry /\ IdleLicense /\ IdleRest /\ IdleLater

MergeNext == MergeSboms

SpecMerge == MergeInit /\ [][MergeNext]_vars

\* The discovery of the projects of a solution.
DetectInit == InitDetect /\ IdleBase /\ IdleSolution /\ IdleExport /\ IdleLater

DetectNext == DetectProjects

SpecDetect == DetectInit /\ [][DetectNext]_vars

\* The consolidated SBOM of a solution.
SolutionInit == InitSolution /\ IdleBase /\ IdleDetect /\ IdleExport /\ IdleLater

SolutionNext == CreateSolutionSbom

SpecSolution == SolutionInit /\ [][SolutionNext]_vars

\* The export of one SBOM.
ExportInit == InitExport /\ IdleBase /\ IdleDetect /\ IdleSolution /\ IdleLater

ExportNext ==
    \/ ExportSbom
    \/ ReloadSbom

SpecExport == ExportInit /\ [][ExportNext]_vars

\* One call of generate_sbom or scan_solution, and the compliance report and
\* checklist of an SBOM.
PipelineInit ==
    /\ InitGenerate \/ InitScanSolution \/ InitHandBuilt
    /\ IdleBase /\ IdleRest /\ IdleObjects

PipelineNext ==
    \/ GenerateSbom
    \/ ScanSolution
    \/ ValidateSbom
    \/ GenerateComplianceChecklist

SpecPipeline == PipelineInit /\ [][PipelineNext]_vars

\* The merge of SBOM objects, and the license update of the merged SBOM.
ObjectsInit == InitObjects /\ IdleBase /\ IdleRest /\ IdlePipeline

ObjectsNext ==
    \/ MergeSbomObjects
    \/ UpdateComponentLicenses

SpecObjects == ObjectsInit /\ [][ObjectsNext]_vars

(***************************************************************************)
(* Properties                                                              *)
(***************************************************************************)

\* The concatenation of the lists of a list of lists.
RECURSIVE Concat(_)
Concat(lists) ==
    IF lists = <<>> THEN <<>> ELSE Head(lists) \o Concat(Tail(lists))

\* The elements of list at the positions in keep, in order.
RECURSIVE Pick(_, _, _)
Pick(list, keep, i) ==
    IF i > Len(list) THEN <<>>
    ELSE (IF i \in keep THEN <<list[i]>> ELSE <<>>) \o Pick(list, keep, i + 1)

\* list without every element that has the identity of an earlier one.
FirstOccurrences(list, Identity(_)) ==
    Pick(list,
         {i \in 1..Len(list) :
             \A j \in 1..(i - 1) : Identity(list[j]) # Identity(list[i])},
         1)

\* What the scanners that did not raise returned, in scanner order.
ScannedComponents ==
    Concat([i \in 1..Len(outcomes) |->
               IF outcomes[i].raised THEN <<>> ELSE outcomes[i].components])

\* The components of the SBOMs to merge, in input order.
SourceComponents ==
    Concat([i \in 1..Len(sboms) |-> sboms[i].components])

\* C1: _scan_project returns the concatenation of the scanner outputs, in
\* scanner order, without every component whose (name, version,
\* package_manager) triple equals the triple of an earlier component.
C1_ScanDedupByTriple ==
    op = "_scan_project" =>
        scan_result.components = FirstOccurrences(ScannedComponents, Triple)

\* C2: the components of the merged SBOM are the inputs' components in input
\* order, without every component whose triple equals the triple of an
\* earlier one, across SBOM boundaries.
C2_MergeDedupByTriple ==
    (sboms # <<>> /\ merge_result # <<>>) =>
        merge_result[1].sbom.components = FirstOccurrences(SourceComponents, Triple)

\* The value of the first SBOM of the list that defines the field, or None.
FirstDefined(list, Field(_)) ==
    LET defining == {i \in 1..Len(list) : Truthy(Field(list[i]))}
    IN IF defining = {} THEN None
       ELSE Field(list[CHOOSE i \in defining : \A j \in defining : i <= j])

ManufacturerOf(sbom) == sbom.manufacturer

SubmissionIdOf(sbom) == sbom.fda_submission_id

C4_MergeEmptyFails ==
    merge_result # <<>> =>
        /\ sboms = <<>> =>
              /\ merge_result[1].status = "ValueError: No SBOMs provided for merging"
              /\ "sbom" \notin DOMAIN merge_result[1]
        /\ merge_result[1].status = "returned" => sboms # <<>>

\* merge_sboms has been called with the empty list.
C4_Witness ==
    /\ sboms = <<>>
    /\ merge_result # <<>>
    /\ merge_result[1].status # "returned"

\* C5: when the scan() of some applicable scanners raises, _scan_project
\* still returns, has run every applicable scanner, and returns the
\* deduplicated concatenation of what the other scanners returned.
C5_ScannerFailureIsolated ==
    op = "_scan_project" =>
        /\ scan_result.status = "returned"
        /\ scan_result.ran = applicable
        /\ scan_result.components =
               FirstOccurrences(ScannedComponents, component_key)

\* A scan in which a scanner raised between two scanners that each
\* contributed a component to the result.
C5_Witness ==
    /\ op = "_scan_project"
    /\ \E i, j, k \in 1..Len(outcomes) :
           /\ i < j /\ j < k
           /\ outcomes[j].raised
           /\ Len(outcomes[i].components) = 1
           /\ Len(outcomes[k].components) = 1
    /\ Len(scan_result.components) = 2

\* The classes of registry that accept root, in registry order.
Accepting(registry, root) ==
    Pick(registry, {i \in 1..Len(registry) : can_scan(registry[i], root)}, 1)

\* C6: get_applicable_scanners returns one scanner for each registered class
\* whose can_scan is true, in registration order, with FileScanner last, and
\* leaves the registry as it was; for a directory holding only package.json
\* that is the JavaScript scanner, then the fallback, and no Python, .NET or
\* Java scanner.
C6_ApplicableScanners ==
    /\ [](op = "get_applicable_scanners" =>
            /\ applicable = Accepting(scanners, project)
            /\ \A i, j \in 1..Len(applicable) :
                   applicable[i] = applicable[j] => i = j
            /\ applicable # <<>>
            /\ applicable[Len(applicable)] = "FileScanner"
            /\ project = {"package.json"} =>
                  /\ applicable[1] = "JavaScriptScanner"
                  /\ \A i \in 1..Len(applicable) :
                         applicable[i] \notin
                             {"PythonScanner", "DotNetScanner", "JavaScanner"}
                  /\ scanners = ScannerRegistry_init =>
                         applicable = <<"JavaScriptScanner", "FileScanner">>)
    /\ [][op' = "get_applicable_scanners" => scanners' = scanners]_vars

\* The fresh registry was asked about a directory holding only package.json.
C6_Witness ==
    /\ op = "get_applicable_scanners"
    /\ project = {"package.json"}
    /\ scanners = ScannerRegistry_init
    /\ Len(applicable) = 2

\* C7: FileScanner stays the last class of the registry; registering a class
\* that is not present puts it right before FileScanner, makes the list one
\* longer and keeps the order of the others; registering a class that is
\* present changes nothing.
C7_FallbackPinnedLast ==
    /\ [](scanners # <<>> /\ scanners[Len(scanners)] = "FileScanner")
    /\ [][op' = "register_scanner" =>
            LET n == Len(scanners) IN
            IF \E i \in 1..n : scanners[i] = registered'
            THEN scanners' = scanners
            ELSE /\ Len(scanners') = n + 1
                 /\ scanners'[n] = registered'
                 /\ scanners'[n + 1] = "FileScanner"
                 /\ SubSeq(scanners', 1, n - 1) = SubSeq(scanners, 1, n - 1)]_vars

\* A second class was registered on top of an earlier registration.
C7_Witness ==
    /\ op = "register_scanner"
    /\ Len(scanners) = Len(ScannerRegistry_init) + 2
    /\ scanners[Len(scanners) - 1] = registered
    /\ scanners[Len(scanners)] = "FileScanner"

\* C8: normalization stores raw SPDX identifiers: "MIT" gives spdx_id "MIT"
\* and name "MIT", "Apache-2.0" gives spdx_id "Apache-2.0", "" gives name
\* "Unknown" and no spdx_id, "Something Custom" gives its own name and no
\* spdx_id, and no stored spdx_id carries the "SPDX-License-Identifier: "
\* prefix.
C8_RawSpdxIdentifiers ==
    scanner_license # <<>> =>
        LET license == scanner_license[1] IN
        /\ license_text = "MIT" =>
              license.spdx_id = "MIT" /\ license.name = "MIT"
        /\ license_text = "Apache-2.0" => license.spdx_id = "Apache-2.0"
        /\ license_text = "" =>
              license.name = "Unknown" /\ license.spdx_id = None
        /\ license_text = "Something Custom" =>
              license.name = "Something Custom" /\ license.spdx_id = None
        /\ ~StartsWith(license.spdx_id, "SPDX-License-Identifier: ")

\* The text is empty or made of whitespace only.
IsBlank(text) ==
    text # None /\ \A i \in 1..Len(text) : IsSpace(SubSeq(text, i, i))

\* C9: for an empty or whitespace-only text both normalizations give name
\* "Unknown" and no spdx_id, and every normalized License has a non-empty
\* spdx_id or a non-empty name.
C9_BlankIsUnknown ==
    \A result \in {scanner_license, generator_license} :
        result # <<>> =>
            /\ IsBlank(license_text) =>
                  result[1].name = "Unknown" /\ result[1].spdx_id = None
            /\ Truthy(result[1].spdx_id) \/ Truthy(result[1].name)

\* C10: the scanners' normalization and the generator's give, for every raw
\* text, Licenses with the same spdx_id and the same name.
C10_NormalizeIdentically ==
    (scanner_license # <<>> /\ generator_license # <<>>) =>
        /\ scanner_license[1].spdx_id = generator_license[1].spdx_id
        /\ scanner_license[1].name = generator_license[1].name

(***************************************************************************)
(* Properties of solution discovery                                        *)
(***************************************************************************)

\* The conditions of the three specific rules, read off the solution.
HasSln(s) == \E f \in s.files : Len(f) = 1 /\ EndsWith(f[1], ".sln")

HasWorkspacesKey(s) ==
    /\ <<"package.json">> \in s.files
    /\ s.text[<<"package.json">>].valid
    /\ s.text[<<"package.json">>].has_workspaces

HasModulesPom(s) ==
    /\ <<"pom.xml">> \in s.files
    /\ s.text[<<"pom.xml">>].has_modules

\* The rule of highest precedence whose condition holds.
ChosenRule(s) ==
    IF HasSln(s) THEN "_scan_dotnet_solution"
    ELSE IF HasWorkspacesKey(s) THEN "_scan_npm_workspace"
    ELSE IF HasModulesPom(s) THEN "_scan_maven_multimodule"
    ELSE "_scan_generic_projects"

\* The projects a rule finds.
RuleProjects(s, rule) ==
    CASE rule = "_scan_dotnet_solution" -> scan_dotnet_solution(s)
      [] rule = "_scan_npm_workspace" -> scan_npm_workspace(s)
      [] rule = "_scan_maven_multimodule" -> scan_maven_multimodule(s)
      [] rule = "_scan_generic_projects" -> scan_generic_projects(s)

\* C11: _detect_projects calls the scan of the one rule of highest
\* precedence whose condition holds (.sln, workspaces key, <modules>, else
\* generic) and returns exactly the projects of that rule, also when that
\* rule finds none.
C11_OneRuleByPrecedence ==
    detected # <<>> =>
        /\ detected[1].called = ChosenRule(solution)
        /\ detected[1].projects = RuleProjects(solution, ChosenRule(solution))

\* A solution with an .sln file was scanned whose .sln rule finds nothing,
\* while the workspace, Maven and generic rules would each find a project:
\* the map is empty.
C11_Witness ==
    /\ detected # <<>>
    /\ HasSln(solution)
    /\ HasWorkspacesKey(solution)
    /\ HasModulesPom(solution)
    /\ DOMAIN scan_npm_workspace(solution) # {}
    /\ DOMAIN scan_maven_multimodule(solution) # {}
    /\ DOMAIN scan_generic_projects(solution) # {}
    /\ DOMAIN detected[1].projects = {}

\* The Project(...) lines of the .sln file of the solution.
SlnLines == solution.text[<<"App.sln">>].projects

\* Line i references a C# or VB project file.
ProjectFileLine(i) ==
    \/ EndsWith(SlnLines[i].path, ".csproj")
    \/ EndsWith(SlnLines[i].path, ".vbproj")

\* The directory that contains the project file of line i.
ProjectDirectory(i) == Parent(PurePath(SlnLines[i].path))

\* C12: on a root with an .sln file the map has one entry for each
\* Project(...) line that references a .csproj or .vbproj file, keyed by the
\* name of the line and mapped to the directory of the project file, and no
\* entry for any other line.
C12_SlnOneEntryPerProjectLine ==
    (detected # <<>> /\ HasSln(solution)) =>
        LET projects == detected[1].projects IN
        /\ \A i \in 1..Len(SlnLines) :
               ProjectFileLine(i) =>
                   /\ SlnLines[i].name \in DOMAIN projects
                   /\ projects[SlnLines[i].name] = ProjectDirectory(i)
        /\ \A name \in DOMAIN projects :
               \E i \in 1..Len(SlnLines) :
                   ProjectFileLine(i) /\ SlnLines[i].name = name

\* Line i references a C# or VB project file in a directory that exists.
KeptLine(i) ==
    /\ ProjectFileLine(i)
    /\ ProjectDirectory(i) \in solution.dirs \cup solution.files

\* C12 as amended: the map has one entry for each project name carried by a
\* Project(...) line that references a .csproj or .vbproj file in an existing
\* directory, mapped to the directory of the last such line of that name, and
\* no other entry.
C12_SlnEntriesForExistingDirectories ==
    (detected # <<>> /\ HasSln(solution)) =>
        LET projects == detected[1].projects IN
        /\ DOMAIN projects = {SlnLines[i].name : i \in {j \in 1..Len(SlnLines) : KeptLine(j)}}
        /\ \A name \in DOMAIN projects :
               LET last == CHOOSE i \in 1..Len(SlnLines) :
                               /\ KeptLine(i) /\ SlnLines[i].name = name
                               /\ \A j \in (i + 1)..Len(SlnLines) :
                                      ~(KeptLine(j) /\ SlnLines[j].name = name)
               IN  projects[name] = ProjectDirectory(last)

\* An .sln file was scanned that references a C# project in an existing
\* directory and a VB project in a missing one: only the first is in the map.
C12_Witness ==
    /\ detected # <<>>
    /\ HasSln(solution)
    /\ Len(SlnLines) = 2
    /\ \A i \in 1..2 : ProjectFileLine(i)
    /\ KeptLine(1)
    /\ ~KeptLine(2)
    /\ DOMAIN detected[1].projects = {SlnLines[1].name}

\* C13: no project path generic detection returns lies more than 3 levels
\* below the root, and none has a component that starts with "." or is
\* node_modules, target, build or __pycache__.
C13_GenericDepthAndSkips ==
    (detected # <<>> /\ detected[1].called = "_scan_generic_projects") =>
        \A name \in DOMAIN detected[1].projects :
            LET path == detected[1].projects[name] IN
            /\ Len(path) <= 3
            /\ \A k \in 1..Len(path) :
                   /\ ~StartsWith(path[k], ".")
                   /\ path[k] \notin {"node_modules", "target", "build", "__pycache__"}

\* The <module> entries of the root pom.xml.
PomModules == solution.text[<<"pom.xml">>].modules

\* C14: when the <modules> rule is the chosen one, the map holds exactly the
\* <module> entries that name an existing directory with its own pom.xml,
\* each mapped to that directory, whether or not the root pom.xml declares
\* the Maven namespace.
C14_MavenModulesFound ==
    (detected # <<>> /\ detected[1].called = "_scan_maven_multimodule") =>
        LET projects == detected[1].projects
            found == {i \in 1..Len(PomModules) :
                         /\ PurePath(PomModules[i]) \in solution.dirs
                         /\ PurePath(PomModules[i]) \o <<"pom.xml">> \in solution.files}
        IN  /\ DOMAIN projects = {PomModules[i] : i \in found}
            /\ \A i \in found : projects[PomModules[i]] = PurePath(PomModules[i])

(***************************************************************************)
(* Properties of the consolidated SBOM                                     *)
(***************************************************************************)

\* C15: for a non-empty project map create_solution_sbom returns the merge of
\* the project SBOMs with target_system the solution name, manufacturer the
\* argument when one is given and else the first-wins manufacturer of the
\* merge, and relationships that give for exactly every project name the
\* component names of its SBOM in order; for an empty map it fails with the
\* ValueError and returns no SBOM.
C15_SolutionSbom ==
    solution_sbom # <<>> =>
        LET result == solution_sbom[1]
            n == Len(project_sboms)
            values == [i \in 1..n |-> project_sboms[i].sbom]
        IN  IF n = 0
            THEN /\ result.status = "ValueError: No project SBOMs provided"
                 /\ "sbom" \notin DOMAIN result
            ELSE /\ result.status = "returned"
                 /\ result.sbom.components =
                        merge_sboms(values, solution_name).sbom.components
                 /\ result.sbom.target_system = solution_name
                 /\ result.sbom.manufacturer =
                        IF Truthy(manufacturer) THEN manufacturer
                        ELSE FirstDefined(values, ManufacturerOf)
                 /\ DOMAIN result.sbom.relationships =
                        {project_sboms[i].name : i \in 1..n}
                 /\ \A i \in 1..n :
                        result.sbom.relationships[project_sboms[i].name] =
                            [j \in 1..Len(values[i].components) |->
                                values[i].components[j].name]

\* A solution SBOM was built from two projects with no manufacturer argument
\* given: the merge dropped a duplicate component, the manufacturer is that
\* of the second project, and the relationships still list the duplicate.
C15_Witness ==
    /\ solution_sbom # <<>>
    /\ Len(project_sboms) = 2
    /\ manufacturer = None
    /\ ~Truthy(project_sboms[1].sbom.manufacturer)
    /\ Truthy(project_sboms[2].sbom.manufacturer)
    /\ solution_sbom[1].sbom.manufacturer = project_sboms[2].sbom.manufacturer
    /\ Len(project_sboms[1].sbom.components) = 1
    /\ project_sboms[2].sbom.components = project_sboms[1].sbom.components
    /\ Len(solution_sbom[1].sbom.components) = 1
    /\ Len(solution_sbom[1].sbom.relationships[project_sboms[2].name]) = 1

\* create_solution_sbom has been called with an empty project map.
C15_WitnessEmpty ==
    /\ solution_sbom # <<>>
    /\ project_sboms = <<>>
    /\ solution_sbom[1].status = "ValueError: No project SBOMs provided"

(***************************************************************************)
(* Properties of the exporters                                             *)
(***************************************************************************)

SupportedFormats == {"spdx", "cyclonedx", "swid", "json"}

\* export_sbom has returned for the format name.
Exported(name) == export_result = <<"returned">> /\ format_name = name

\* The document export_sbom wrote.
Document == output_file[1]

\* C16: the exporter is found exactly for the format names spdx, cyclonedx,
\* swid and json; a call of export_sbom with any other name ends with the
\* ValueError "Unsupported format" and leaves the output file as it was,
\* absent or with its earlier content.
C16_ExporterSelection ==
    /\ [](\A name \in FormatNames :
              (get_exporter(name).status = "returned") <=> (name \in SupportedFormats))
    /\ [][(export_result = <<>> /\ export_result' # <<>>) =>
              IF format_name \in SupportedFormats
              THEN export_result' = <<"returned">>
              ELSE /\ StartsWith(export_result'[1], "ValueError: Unsupported format")
                   /\ output_file' = output_file]_vars

\* export_sbom was called with the name SPDX in upper case for a path that
\* names an existing file: it failed and the file still has its content.
C16_Witness ==
    /\ export_result # <<>>
    /\ format_name = "SPDX"
    /\ export_result[1] = "ValueError: Unsupported format: SPDX"
    /\ output_file = <<[earlier |-> "content"]>>

\* C17: an SBOM with no components is exported in each of the four formats;
\* the SPDX document has the root package alone and no relationships, the
\* CycloneDX and the native documents have empty component lists, and the
\* SWID document has the Entity and Meta children and nothing else.
C17_EmptySbomExports ==
    (export_result # <<>> /\ exported_sbom.components = <<>>
        /\ format_name \in SupportedFormats) =>
        /\ export_result = <<"returned">>
        /\ output_file # <<>>
        /\ format_name = "spdx" =>
               /\ Len(Document.packages) = 1
               /\ Document.packages[1].SPDXID = "SPDXRef-Package"
               /\ Len(Document.relationships) = 0
        /\ format_name = "cyclonedx" => Len(Document.components) = 0
        /\ format_name = "swid" =>
               [i \in 1..Len(Document.children) |-> Document.children[i].tag]
                   = <<"Entity", "Meta">>
        /\ format_name = "json" => Len(Document.components) = 0

\* An SBOM with no components has been exported as SWID.
C17_Witness ==
    /\ Exported("swid")
    /\ exported_sbom.components = <<>>
    /\ Len(Document.children) = 2

\* C18: the SPDX document of an SBOM with n components has n+1 packages,
\* the root package SPDXRef-Package first and then the components in order;
\* the SPDXIDs are pairwise distinct; the relationships are n DEPENDS_ON
\* edges from SPDXRef-Package, one to each component package.
C18_SpdxStructure ==
    Exported("spdx") =>
        LET n == Len(exported_sbom.components)
            packages == Document.packages
            relationships == Document.relationships
        IN  /\ Len(packages) = n + 1
            /\ packages[1].SPDXID = "SPDXRef-Package"
            /\ Truthy(exported_sbom.target_system) =>
                   packages[1].name = exported_sbom.target_system
            /\ \A i \in 1..n : packages[i + 1].name = exported_sbom.components[i].name
            /\ \A i, j \in 1..(n + 1) : i # j => packages[i].SPDXID # packages[j].SPDXID
            /\ Len(relationships) = n
            /\ \A i \in 1..n :
                   /\ relationships[i].spdxElementId = "SPDXRef-Package"
                   /\ relationships[i].relationshipType = "DEPENDS_ON"
                   /\ relationships[i].relatedSpdxElement = packages[i + 1].SPDXID

\* An SBOM with two components of the same name has been exported as SPDX.
C18_Witness ==
    /\ Exported("spdx")
    /\ Len(exported_sbom.components) = 2
    /\ exported_sbom.components[1].name = exported_sbom.components[2].name
    /\ Len(Document.packages) = 3

\* C19: in the SPDX document the license expression of a component whose
\* licenses carry SPDX identifiers joins the raw identifiers with " AND "
\* and holds no prefix; the component built with License(spdx_id="MIT") and
\* License(spdx_id="Apache-2.0") has "MIT AND Apache-2.0".
C19_SpdxRawLicenseExpression ==
    Exported("spdx") =>
        \A i \in 1..Len(exported_sbom.components) :
            LET component == exported_sbom.components[i]
                package == Document.packages[i + 1]
            IN  (component.licenses # <<>>
                 /\ \A j \in 1..Len(component.licenses) :
                        Truthy(component.licenses[j].spdx_id)) =>
                    /\ "licenseConcluded" \in DOMAIN package
                    /\ "licenseDeclared" \in DOMAIN package
                    /\ ~Contains(package["licenseConcluded"], SpdxPrefix)
                    /\ ~Contains(package["licenseDeclared"], SpdxPrefix)
                    /\ component.licenses = <<License("MIT", "MIT"),
                                              License("Apache-2.0", "Apache-2.0")>> =>
                           /\ package["licenseConcluded"] = "MIT AND Apache-2.0"
                           /\ package["licenseDeclared"] = "MIT AND Apache-2.0"

\* C20: in the CycloneDX document the entry of a vulnerability has a ratings
\* block exactly when the vulnerability has a score, 0 included, and the
\* block carries that score.
C20_CycloneDxRatings ==
    Exported("cyclonedx") =>
        \A i \in 1..Len(exported_sbom.components) :
            LET component == exported_sbom.components[i]
                entry == Document.components[i]
            IN  \A j \in 1..Len(component.vulnerabilities) :
                    LET vuln == component.vulnerabilities[j]
                        vuln_data == entry["vulnerabilities"][j]
                    IN  /\ ("ratings" \in DOMAIN vuln_data) <=> (vuln.score \in Scores)
                        /\ vuln.score \in Scores =>
                               vuln_data["ratings"][1].score = vuln.score

\* C27: a component is dropped as a duplicate only if an earlier component
\* has the same name, the same version and the same package_manager: every
\* component that the scanners returned, and every component of an SBOM to
\* merge, has its identity triple in the result.
C27_DroppedOnlyForEqualTriple ==
    /\ op = "_scan_project" =>
           \A i \in 1..Len(ScannedComponents) :
               \E j \in 1..Len(scan_result.components) :
                   Triple(scan_result.components[j]) = Triple(ScannedComponents[i])
    /\ (sboms # <<>> /\ merge_result # <<>>) =>
           \A i \in 1..Len(SourceComponents) :
               \E j \in 1..Len(merge_result[1].sbom.components) :
                   Triple(merge_result[1].sbom.components[j])
                       = Triple(SourceComponents[i])

\* C28: in the CycloneDX export of an SBOM whose components are pairwise
\* distinct under the (name, version, package_manager) identity, the bom-ref
\* values are pairwise distinct.
C28_BomRefsDistinct ==
    (/\ Exported("cyclonedx")
     /\ \A i, j \in 1..Len(exported_sbom.components) :
            i # j => Triple(exported_sbom.components[i])
                         # Triple(exported_sbom.components[j])) =>
        \A i, j \in 1..Len(Document.components) :
            i # j => Document.components[i]["bom-ref"]
                         # Document.components[j]["bom-ref"]

\* The directories generic detection accepts as projects: 1 to 3 levels
\* below the root, not named as a skipped directory, holding an indicator.
QualifyingDirectories ==
    {dir_path \in solution.dirs :
        /\ Len(dir_path) \in 1..3
        /\ ~StartsWith(PathName(dir_path), ".")
        /\ PathName(dir_path) \notin SkippedNames
        /\ HasIndicator(solution, dir_path)}

\* C30: generic detection gives distinct qualifying directories distinct
\* project names: the returned map has one entry for every qualifying
\* directory.
C30_GenericOneEntryPerDirectory ==
    (detected # <<>> /\ detected[1].called = "_scan_generic_projects"
        /\ QualifyingDirectories # {}) =>
        LET projects == detected[1].projects IN
        /\ \A dir_path \in QualifyingDirectories :
               \E name \in DOMAIN projects : projects[name] = dir_path
        /\ Cardinality(DOMAIN projects) = Cardinality(QualifyingDirectories)

\* C21: the SBOM rebuilt from the native JSON export has, in the same order,
\* components with the same name, the same version and the same license
\* list (spdx_id and name of each license) as the exported SBOM; no
\* identifier is prefixed a second time.
C21_JsonRoundTrip ==
    reloaded # <<>> =>
        /\ Len(reloaded[1].components) = Len(exported_sbom.components)
        /\ \A i \in 1..Len(exported_sbom.components) :
               LET original == exported_sbom.components[i]
                   rebuilt == reloaded[1].components[i]
               IN  /\ rebuilt.name = original.name
                   /\ rebuilt.version = original.version
                   /\ Len(rebuilt.licenses) = Len(original.licenses)
                   /\ \A j \in 1..Len(original.licenses) :
                          /\ rebuilt.licenses[j].spdx_id = original.licenses[j].spdx_id
                          /\ rebuilt.licenses[j].name = original.licenses[j].name

\* An SBOM with a component without version and a component with two
\* prefixed SPDX identifiers has been exported as JSON and rebuilt.
C21_Witness ==
    /\ reloaded # <<>>
    /\ Len(exported_sbom.components) = 2
    /\ exported_sbom.components[1].version = None
    /\ Len(exported_sbom.components[2].licenses) = 2
    /\ \A j \in 1..2 :
           StartsWith(reloaded[1].components[2].licenses[j].spdx_id, SpdxPrefix)
    /\ output_file[1].components[1].version = "null"

(***************************************************************************)
(* Properties of generate_sbom, scan_solution and the compliance report    *)
(***************************************************************************)

\* The number of times the event occurs in the first n events of the call.
RECURSIVE Occurrences(_, _)
Occurrences(event, n) ==
    IF n = 0 THEN 0
    ELSE (IF call_trace[n] = event THEN 1 ELSE 0) + Occurrences(event, n - 1)

\* The call of the named operation has ended.
Called(name) == call.name = name /\ call_result # <<>>

\* C22: generate_sbom on a project path that does not exist, and
\* scan_solution on a solution path that does not exist, end with
\* FileNotFoundError and have made no call before: no SBOM is created, no
\* scanner and no project detection runs, the security analyzer is not
\* invoked and the progress callback is not called.
C22_PathNotFoundBeforeAnyWork ==
    ((Called("generate_sbom") \/ Called("scan_solution")) /\ ~call.exists) =>
        /\ StartsWith(call_result[1], "FileNotFoundError")
        /\ call_trace = <<>>
        /\ bom = <<>>
        /\ DOMAIN scanned_sboms = {}

\* generate_sbom has been called with a progress callback and vulnerability
\* scanning on a path that does not exist, where the project would have
\* components to report.
C22_Witness ==
    /\ Called("generate_sbom")
    /\ ~call.exists
    /\ call.progress_callback
    /\ call.include_vulnerabilities
    /\ call.project.requirements_txt # <<>>
    /\ call_result = <<"FileNotFoundError: Project path does not exist: device-api">>

\* C23: a call of scan_solution on an existing solution path that returns,
\* returns a map with an SBOM for every project that detection found.
C23_NoSilentPartialSuccess ==
    (Called("scan_solution") /\ call_result = <<"returned">>) =>
        DOMAIN scanned_sboms = DOMAIN detect_projects(call.solution).projects

\* C24: the SBOM that generate_sbom returns for a Python project with at
\* least one component, called with a target system and a manufacturer and
\* without vulnerability scanning, is reported compliant by validate_sbom:
\* fda_compliant, no issue, and total_components counts the components.
C24_GeneratedPythonSbomCompliant ==
    (/\ Called("generate_sbom")
     /\ call_result = <<"returned">>
     /\ Truthy(call.target_system)
     /\ Truthy(call.manufacturer)
     /\ ~call.include_vulnerabilities
     /\ report # <<>>
     /\ Len(bom[1].components) >= 1) =>
        /\ report[1].fda_compliant
        /\ report[1].compliance_issues = <<>>
        /\ report[1].total_components = Len(bom[1].components)

\* C25: every item of the compliance checklist is true for an SBOM that
\* validate_sbom reports compliant.
C25_ChecklistAgreesWithValidation ==
    (report # <<>> /\ checklist # <<>> /\ report[1].fda_compliant) =>
        \A item \in DOMAIN checklist[1] : checklist[1][item]

\* The components _scan_project returns for the project of the call.
ProjectComponents == SBOMGenerator_scan_project(call.project).components

\* C26: in a call of generate_sbom on an existing path,
\* scan_all_components is invoked once when include_vulnerabilities is true
\* and never when it is false; it is invoked after the project scan and
\* after every component of the scan has been added; and the message
\* "Scanning project for components..." precedes the message
\* "Scanning for vulnerabilities...".
C26_VulnerabilityStepOrder ==
    (Called("generate_sbom") /\ call.exists) =>
        /\ Occurrences("scan_all_components", Len(call_trace))
               = IF call.include_vulnerabilities THEN 1 ELSE 0
        /\ \A i \in 1..Len(call_trace) :
               call_trace[i] = "scan_all_components" =>
                   /\ Occurrences("_scan_project", i - 1) = 1
                   /\ Occurrences("add_component", i - 1) = Len(ProjectComponents)
                   /\ Occurrences("add_component", Len(call_trace))
                          = Len(ProjectComponents)
        /\ \A i \in 1..Len(call_trace) :
               call_trace[i] = Progress("Scanning for vulnerabilities...") =>
                   /\ \E j \in 1..(i - 1) :
                          call_trace[j] = Progress("Scanning project for components...")
                   /\ \E j \in (i + 1)..Len(call_trace) :
                          call_trace[j] = "scan_all_components"

\* generate_sbom has scanned a project with two components for
\* vulnerabilities and reported both messages.
C26_Witness ==
    /\ Called("generate_sbom")
    /\ call_result = <<"returned">>
    /\ call.include_vulnerabilities
    /\ call.progress_callback
    /\ Len(ProjectComponents) = 2
    /\ Len(bom[1].components) = 2
    /\ call_trace[Len(call_trace)] = "scan_all_components"
    /\ Occurrences(Progress("Scanning for vulnerabilities..."), Len(call_trace)) = 1

(***************************************************************************)
(* Properties of the component objects                                     *)
(***************************************************************************)

\* The components of every source SBOM, as their fields are now.
SourceBomComponents ==
    [i \in 1..Len(source_boms) |->
        [j \in 1..Len(source_boms[i].components) |-> heap[source_boms[i].components[j]]]]

\* C29: the SBOM that merge_sboms returns is independent of its inputs: no
\* step, neither merge_sboms nor a later update_component_licenses of the
\* merged SBOM, changes the components of a source SBOM.
C29_MergedIndependentOfSources ==
    [][SourceBomComponents' = SourceBomComponents]_vars
====
